---- MODULE Spec2Model ----
(***************************************************************************)
(* A model of appconfigguard: the diff engine (Engine.Compare), the sync   *)
(* engine (Engine.ApplyChanges / applyWithRetry), the Azure client         *)
(* (FetchAll, ApplyChanges, value encoding), the JSON flattener and the    *)
(* root command (runRoot).                                                 *)
(*                                                                         *)
(* Go strings are TLA+ strings; TLC evaluates Len, SubSeq and \o on them,  *)
(* so prefix, suffix and substring tests are computed as the code does.    *)
(***************************************************************************)
EXTENDS Integers, Sequences, FiniteSets, TLC

VARIABLES
    pc,          \* position of the running operation
    local,       \* local flat configuration: map key -> value
    remote,      \* remote item list handed to Compare (result of FetchAll)
    strict,      \* the --strict flag / Compare's strict parameter
    changes,     \* the change list returned by Compare
    store,       \* the App Configuration store: map <<key, label>> -> stored value
    store0,      \* the store's content when the run began
    labelFilter, \* the --label flag / FetchAll's labelFilter
    round,       \* 1: first fetch and compare; 2: the fetch and compare after the apply
    operations,  \* applyWithRetry's operations
    attempt,     \* applyWithRetry's loop variable
    opIdx,       \* Client.ApplyChanges: index of the operation to apply next
    lastErr,     \* applyWithRetry's lastErr
    result,      \* what Engine.ApplyChanges returned
    ctxDone,     \* whether ctx.Done() is closed
    calls,       \* the store calls issued in the current attempt, in order
    issued,      \* how often the store call of each operation was issued so far
    waits,       \* the backoff delays waited out in full, in order
    outcomes,    \* the outcome of each attempt of applyWithRetry, in order
    apply,       \* the --apply flag
    ci,          \* the --ci flag
    output,      \* the --output flag
    prompted,    \* whether runRoot has printed the confirmation prompt
    response,    \* runRoot's response, as fmt.Scanln left it
    exitCode,    \* the process's exit code, -1 while it runs
    data,        \* the decoded document handed to Flatten
    flat,        \* the flat mapping Flatten returned
    unflat,      \* what Unflatten returned for flat
    vkey,        \* ValidateAndParseValue's key
    vvalue,      \* ValidateAndParseValue's value
    special,     \* what ValidateAndParseValue returned
    errors       \* the error list ValidateConfiguration returned

diffVars == <<local, remote, strict, changes>>
storeVars == <<store, store0, labelFilter, round>>
applyVars == <<operations, attempt, opIdx, lastErr, result, ctxDone, calls, issued, waits,
              outcomes>>
cliVars == <<apply, ci, output, prompted, response, exitCode>>
flatVars == <<data, flat, unflat>>
validVars == <<vkey, vvalue, special, errors>>
vars == <<pc, diffVars, storeVars, applyVars, cliVars, flatVars, validVars>>

(***************************************************************************)
(* Strings                                                                 *)
(***************************************************************************)

\* The printable ASCII characters in byte order, 0x20 to 0x7E.  The place of
\* the grave accent (0x60), which a TLA+ string cannot hold, is kept by a tab.
Ascii == " !\"#$%&'()*+,-./0123456789:;<=>?@ABCDEFGHIJKLMNOPQRSTUVWXYZ[\\]^_\tabcdefghijklmnopqrstuvwxyz{|}~"

CharAt(s, i) == SubSeq(s, i, i)

\* The byte value of a one-character string.
Ord(c) == 31 + (CHOOSE i \in 1..Len(Ascii) : CharAt(Ascii, i) = c)

\* Go's s < t on strings: bytewise lexicographic order.
RECURSIVE LessFrom(_, _, _)
LessFrom(s, t, i) ==
    IF i > Len(s) THEN i <= Len(t)
    ELSE IF i > Len(t) THEN FALSE
    ELSE IF CharAt(s, i) = CharAt(t, i) THEN LessFrom(s, t, i + 1)
    ELSE Ord(CharAt(s, i)) < Ord(CharAt(t, i))

StrLess(s, t) == LessFrom(s, t, 1)

\* strings.HasPrefix, strings.HasSuffix
HasPrefix(s, p) == Len(s) >= Len(p) /\ SubSeq(s, 1, Len(p)) = p

HasSuffix(s, p) == Len(s) >= Len(p) /\ SubSeq(s, Len(s) - Len(p) + 1, Len(s)) = p

\* strings.Index, 1-based; 0 when sub does not occur in s at or after `from`.
RECURSIVE IndexFrom(_, _, _)
IndexFrom(s, sub, from) ==
    IF from + Len(sub) - 1 > Len(s) THEN 0
    ELSE IF SubSeq(s, from, from + Len(sub) - 1) = sub THEN from
    ELSE IndexFrom(s, sub, from + 1)

\* strings.Contains
Contains(s, sub) == IndexFrom(s, sub, 1) # 0

\* strings.TrimPrefix, strings.TrimSuffix
TrimPrefix(s, p) == IF HasPrefix(s, p) THEN SubSeq(s, Len(p) + 1, Len(s)) ELSE s

TrimSuffix(s, p) == IF HasSuffix(s, p) THEN SubSeq(s, 1, Len(s) - Len(p)) ELSE s

\* strings.Split(s, sep) for a non-empty separator: the list of the pieces.
RECURSIVE Split(_, _)
Split(s, sep) ==
    LET i == IndexFrom(s, sep, 1)
    IN  IF i = 0 THEN <<s>>
        ELSE <<SubSeq(s, 1, i - 1)>> \o Split(SubSeq(s, i + Len(sep), Len(s)), sep)

\* strings.SplitN(s, sep, 2)
SplitN2(s, sep) ==
    LET i == IndexFrom(s, sep, 1)
    IN  IF i = 0 THEN <<s>>
        ELSE <<SubSeq(s, 1, i - 1), SubSeq(s, i + Len(sep), Len(s))>>

IsSpace(c) == c \in {" ", "\t", "\n", "\r"}

\* strings.TrimSpace
RECURSIVE TrimLeft(_)
TrimLeft(s) ==
    IF Len(s) > 0 /\ IsSpace(CharAt(s, 1)) THEN TrimLeft(SubSeq(s, 2, Len(s))) ELSE s

RECURSIVE TrimRight(_)
TrimRight(s) ==
    IF Len(s) > 0 /\ IsSpace(CharAt(s, Len(s))) THEN TrimRight(SubSeq(s, 1, Len(s) - 1)) ELSE s

TrimSpace(s) == TrimRight(TrimLeft(s))

(***************************************************************************)
(* Maps with Go's iteration: a map is a function on a finite set of keys,  *)
(* and a range loop visits its keys in an order the runtime picks.  An     *)
(* order is a sequence of distinct keys; the loop visits the keys of the   *)
(* map in the order they have in that sequence.                            *)
(***************************************************************************)

EmptyMap == <<>>

MapPut(m, k, v) == (k :> v) @@ m

MapDelete(m, k) == [x \in (DOMAIN m) \ {k} |-> m[x]]

Perms(S) == {p \in [1..Cardinality(S) -> S] : \A x \in S : \E i \in DOMAIN p : p[i] = x}

RECURSIVE FilterSeq(_, _, _)
FilterSeq(ord, S, i) ==
    IF i > Len(ord) THEN <<>>
    ELSE IF ord[i] \in S THEN <<ord[i]>> \o FilterSeq(ord, S, i + 1)
    ELSE FilterSeq(ord, S, i + 1)

\* The keys of m in the order a range loop under iteration order ord visits them.
RangeOrder(m, ord) == FilterSeq(ord, DOMAIN m, 1)

(***************************************************************************)
(* Bounds and input universes of the diff engine                           *)
(***************************************************************************)

MaxRemote == 2

KeySet == {"a", "B", "a.b"}
ValueSet == {"1", "2"}
LabelSet == {"", "prod"}
NoTags == <<>>
TagSets == {NoTags}

ConfigItems == [Key : KeySet, Value : ValueSet, Label : LabelSet, Tags : TagSets]

LocalMaps == UNION {[S -> ValueSet] : S \in SUBSET KeySet}

RemoteLists == UNION {[1..n -> ConfigItems] : n \in 0..MaxRemote}

\* The iteration orders of a map with key set S.
Orders(S) == Perms(S)

\* The keys of a remote item list.
RemoteKeys(rem) == {rem[i].Key : i \in DOMAIN rem}

(***************************************************************************)
(* diff.Engine.Compare                                                     *)
(***************************************************************************)

ChangeTypeAdd == "add"
ChangeTypeUpdate == "update"
ChangeTypeDelete == "delete"

Change(type, key, old, new, label, tags) ==
    [Type |-> type, Key |-> key, OldValue |-> old, NewValue |-> new,
     Label |-> label, Tags |-> tags]

\* remoteMap[item.Key] = item for every item of the list, in list order.
RECURSIVE BuildRemoteMap(_, _, _)
BuildRemoteMap(rem, i, m) ==
    IF i > Len(rem) THEN m
    ELSE BuildRemoteMap(rem, i + 1, MapPut(m, rem[i].Key, rem[i]))

\* CompareLocal without the delete(remoteMap, key) that consumes a matched key.
RECURSIVE CompareLocalNoConsume(_, _, _, _, _)
CompareLocalNoConsume(loc, order, i, remoteMap, ch) ==
    IF i > Len(order) THEN [remoteMap |-> remoteMap, changes |-> ch]
    ELSE LET key == order[i]
             localValue == loc[key]
         IN  IF key \in DOMAIN remoteMap
             THEN LET remoteItem == remoteMap[key]
                      ch2 == IF remoteItem.Value # localValue
                             THEN Append(ch, Change(ChangeTypeUpdate, key,
                                         remoteItem.Value, localValue,
                                         remoteItem.Label, remoteItem.Tags))
                             ELSE ch
                  IN  CompareLocalNoConsume(loc, order, i + 1, remoteMap, ch2)
             ELSE CompareLocalNoConsume(loc, order, i + 1, remoteMap,
                      Append(ch, Change(ChangeTypeAdd, key, "", localValue, "", NoTags)))

\* The loop over the local map, visiting the keys in `order`.
RECURSIVE CompareLocal(_, _, _, _, _)
CompareLocal(loc, order, i, remoteMap, ch) ==
    IF i > Len(order) THEN [remoteMap |-> remoteMap, changes |-> ch]
    ELSE LET key == order[i]
             localValue == loc[key]
         IN  IF key \in DOMAIN remoteMap
             THEN LET remoteItem == remoteMap[key]
                      ch2 == IF remoteItem.Value # localValue
                             THEN Append(ch, Change(ChangeTypeUpdate, key,
                                         remoteItem.Value, localValue,
                                         remoteItem.Label, remoteItem.Tags))
                             ELSE ch
                  IN  CompareLocal(loc, order, i + 1, MapDelete(remoteMap, key), ch2)
             ELSE CompareLocal(loc, order, i + 1, remoteMap,
                      Append(ch, Change(ChangeTypeAdd, key, "", localValue, "", NoTags)))

RECURSIVE DeleteLoop(_, _, _, _)
DeleteLoop(remoteMap, order, i, ch) ==
    IF i > Len(order) THEN ch
    ELSE LET remoteItem == remoteMap[order[i]]
         IN  DeleteLoop(remoteMap, order, i + 1,
                 Append(ch, Change(ChangeTypeDelete, remoteItem.Key, remoteItem.Value,
                                   "", remoteItem.Label, remoteItem.Tags)))

CompareDeletesAlways(remoteMap, order, isStrict, ch) ==
    DeleteLoop(remoteMap, order, 1, ch)

\* The items left in remoteMap become deletions, only in strict mode.
CompareDeletes(remoteMap, order, isStrict, ch) ==
    IF isStrict THEN DeleteLoop(remoteMap, order, 1, ch) ELSE ch

\* Insert c into the sorted list s, before the first element with a greater key.
RECURSIVE InsertByKey(_, _, _)
InsertByKey(s, c, i) ==
    IF i > Len(s) THEN Append(s, c)
    ELSE IF StrLess(c.Key, s[i].Key)
         THEN SubSeq(s, 1, i - 1) \o <<c>> \o SubSeq(s, i, Len(s))
         ELSE InsertByKey(s, c, i + 1)

RECURSIVE SortFrom(_, _, _)
SortFrom(ch, i, acc) ==
    IF i > Len(ch) THEN acc ELSE SortFrom(ch, i + 1, InsertByKey(acc, ch[i], 1))

SortChangesNone(ch) == ch

\* sort.Slice(changes, less by Key).  The keys of a change list are pairwise
\* distinct (each comes from one map key), so every sorting algorithm returns
\* the same list.
SortChanges(ch) == SortFrom(ch, 1, <<>>)

\* Compare under the map iteration orders lo (local) and ro (remoteMap).
Compare(loc, rem, isStrict, lo, ro) ==
    LET remoteMap == BuildRemoteMap(rem, 1, EmptyMap)
        afterLocal == CompareLocal(loc, RangeOrder(loc, lo), 1, remoteMap, <<>>)
        all == CompareDeletes(afterLocal.remoteMap,
                              RangeOrder(afterLocal.remoteMap, ro),
                              isStrict, afterLocal.changes)
    IN  SortChanges(all)

(***************************************************************************)
(* encoding/json, as far as the client uses it: json.Marshal of a          *)
(* map[string]string and json.Unmarshal into a map[string]interface{}.     *)
(* The parser reads objects whose members are strings, numbers, true,      *)
(* false or null; nested composites are outside the modelled inputs.       *)
(***************************************************************************)

\* The escape json.Marshal writes for one character of a string.
JsonEscapeChar(c) ==
    CASE c = "\"" -> "\\\""
      [] c = "\\" -> "\\\\"
      [] c = "<"  -> "\\u003c"
      [] c = ">"  -> "\\u003e"
      [] c = "&"  -> "\\u0026"
      [] OTHER    -> c

RECURSIVE JsonEscape(_)
JsonEscape(s) ==
    IF Len(s) = 0 THEN ""
    ELSE JsonEscapeChar(CharAt(s, 1)) \o JsonEscape(SubSeq(s, 2, Len(s)))

JsonQuote(s) == "\"" \o JsonEscape(s) \o "\""

\* json.Marshal(map[string]string{"uri": uri})
MarshalUri(uri) == "{" \o JsonQuote("uri") \o ":" \o JsonQuote(uri) \o "}"

JsonFail == [ok |-> FALSE]

RECURSIVE SkipWs(_, _)
SkipWs(s, i) == IF i <= Len(s) /\ IsSpace(CharAt(s, i)) THEN SkipWs(s, i + 1) ELSE i

\* The character a \uXXXX escape denotes, for the escapes json.Marshal writes.
UnicodeEscape(hex) ==
    CASE hex \in {"003c", "003C"} -> "<"
      [] hex \in {"003e", "003E"} -> ">"
      [] hex = "0026" -> "&"
      [] hex = "0022" -> "\""
      [] hex \in {"005c", "005C"} -> "\\"
      [] OTHER -> ""

\* Reads a string body from position i (after the opening quote).
RECURSIVE ReadString(_, _, _)
ReadString(s, i, acc) ==
    IF i > Len(s) THEN JsonFail
    ELSE LET c == CharAt(s, i)
         IN  IF c = "\"" THEN [ok |-> TRUE, val |-> acc, next |-> i + 1]
             ELSE IF c = "\\"
             THEN LET e == CharAt(s, i + 1)
                  IN  IF e \in {"\"", "\\", "/"} THEN ReadString(s, i + 2, acc \o e)
                      ELSE IF e = "u" /\ i + 5 <= Len(s)
                                  /\ UnicodeEscape(SubSeq(s, i + 2, i + 5)) # ""
                      THEN ReadString(s, i + 6, acc \o UnicodeEscape(SubSeq(s, i + 2, i + 5)))
                      ELSE JsonFail
             ELSE ReadString(s, i + 1, acc \o c)

IsDigit(c) == c \in {"0", "1", "2", "3", "4", "5", "6", "7", "8", "9"}

RECURSIVE SkipDigits(_, _)
SkipDigits(s, i) == IF i <= Len(s) /\ IsDigit(CharAt(s, i)) THEN SkipDigits(s, i + 1) ELSE i

\* Reads one member value at position i: a string, a number or a literal.
ReadValue(s, i) ==
    IF i > Len(s) THEN JsonFail
    ELSE IF CharAt(s, i) = "\""
    THEN LET r == ReadString(s, i + 1, "")
         IN  IF r.ok THEN [ok |-> TRUE, val |-> [isString |-> TRUE, str |-> r.val],
                           next |-> r.next]
             ELSE JsonFail
    ELSE IF IsDigit(CharAt(s, i)) /\ (CharAt(s, i) # "0" \/ SkipDigits(s, i) = i + 1)
    THEN [ok |-> TRUE, val |-> [isString |-> FALSE, str |-> ""], next |-> SkipDigits(s, i)]
    ELSE IF SubSeq(s, i, i + 3) \in {"true", "null"}
    THEN [ok |-> TRUE, val |-> [isString |-> FALSE, str |-> ""], next |-> i + 4]
    ELSE IF SubSeq(s, i, i + 4) = "false"
    THEN [ok |-> TRUE, val |-> [isString |-> FALSE, str |-> ""], next |-> i + 5]
    ELSE JsonFail

\* Reads the members of an object from position i (after "{" or ",").
RECURSIVE ReadMembers(_, _, _)
ReadMembers(s, i, m) ==
    LET k == SkipWs(s, i)
    IN  IF k > Len(s) \/ CharAt(s, k) # "\"" THEN JsonFail
        ELSE LET name == ReadString(s, k + 1, "")
             IN  IF ~name.ok THEN JsonFail
                 ELSE LET c == SkipWs(s, name.next)
                      IN  IF c > Len(s) \/ CharAt(s, c) # ":" THEN JsonFail
                          ELSE LET v == ReadValue(s, SkipWs(s, c + 1))
                               IN  IF ~v.ok THEN JsonFail
                                   ELSE LET e == SkipWs(s, v.next)
                                            m2 == MapPut(m, name.val, v.val)
                                        IN  IF e > Len(s) THEN JsonFail
                                            ELSE IF CharAt(s, e) = ","
                                            THEN ReadMembers(s, e + 1, m2)
                                            ELSE IF CharAt(s, e) = "}" /\ SkipWs(s, e + 1) > Len(s)
                                            THEN [ok |-> TRUE, members |-> m2]
                                            ELSE JsonFail

\* json.Unmarshal([]byte(value), &kvRef) for kvRef map[string]interface{}.
UnmarshalObject(s) ==
    LET i == SkipWs(s, 1)
    IN  IF i > Len(s) \/ CharAt(s, i) # "{" THEN JsonFail
        ELSE LET j == SkipWs(s, i + 1)
             IN  IF j <= Len(s) /\ CharAt(s, j) = "}" /\ SkipWs(s, j + 1) > Len(s)
                 THEN [ok |-> TRUE, members |-> EmptyMap]
                 ELSE ReadMembers(s, i + 1, EmptyMap)

(***************************************************************************)
(* azure.Client: value encoding                                            *)
(***************************************************************************)

KeyVaultContentType == "application/vnd.microsoft.appconfig.keyvaultref+json;charset=utf-8"
TextPlain == "text/plain"
KeyVaultPrefix == "@Microsoft.KeyVault("
VaultHost == "vault.azure.net"

isKeyVaultReference(value) ==
    \/ HasPrefix(value, KeyVaultPrefix) /\ HasSuffix(value, ")")
    \/ HasPrefix(value, "https://") /\ Contains(value, VaultHost)

detectContentType(value) ==
    IF isKeyVaultReference(value) THEN KeyVaultContentType ELSE TextPlain

\* The params map built from the pieces of the parameter list, in order.
RECURSIVE ParseParams(_, _, _)
ParseParams(pieces, i, params) ==
    IF i > Len(pieces) THEN params
    ELSE LET parts == SplitN2(pieces[i], "=")
         IN  IF Len(parts) = 2
             THEN ParseParams(pieces, i + 1,
                      MapPut(params, TrimSpace(parts[1]), TrimSpace(parts[2])))
             ELSE ParseParams(pieces, i + 1, params)

formatKeyVaultReferenceVerbatim(value) == value

formatKeyVaultReference(value) ==
    LET uri == IF HasPrefix(value, KeyVaultPrefix) /\ HasSuffix(value, ")")
               THEN LET content == TrimPrefix(TrimSuffix(value, ")"), KeyVaultPrefix)
                        params == ParseParams(Split(content, ";"), 1, EmptyMap)
                    IN  IF "SecretUri" \in DOMAIN params THEN params["SecretUri"] ELSE ""
               ELSE value
    IN  MarshalUri(uri)

formatValueForStorage(value, contentType) ==
    IF contentType = KeyVaultContentType THEN formatKeyVaultReference(value) ELSE value

normalizeRetrievedValue(value) ==
    LET kvRef == IF HasPrefix(value, "{") /\ HasSuffix(value, "}")
                 THEN UnmarshalObject(value) ELSE JsonFail
    IN  IF /\ kvRef.ok
           /\ "uri" \in DOMAIN kvRef.members
           /\ kvRef.members["uri"].isString
           /\ Contains(kvRef.members["uri"].str, VaultHost)
        THEN KeyVaultPrefix \o "SecretUri=" \o kvRef.members["uri"].str \o ")"
        ELSE IF HasPrefix(value, KeyVaultPrefix) THEN value
        ELSE IF HasPrefix(value, "https://") /\ Contains(value, VaultHost)
        THEN KeyVaultPrefix \o "SecretUri=" \o value \o ")"
        ELSE value

(***************************************************************************)
(* json.Flattener: decoded documents, Flatten and Unflatten                *)
(***************************************************************************)

\* The values json.Decoder.Decode stores in an interface{}: string, float64,
\* bool, nil, []interface{} and map[string]interface{}.
Str(s) == [kind |-> "string", val |-> s]
Num(n) == [kind |-> "float64", num |-> n]
Bool(b) == [kind |-> "bool", bool |-> b]
Nil == [kind |-> "nil"]
Slice(items) == [kind |-> "slice", items |-> items]
Map(fields) == [kind |-> "map", fields |-> fields]

Digits == "0123456789"

\* strconv.Itoa
RECURSIVE Itoa(_)
Itoa(n) ==
    IF n < 0 THEN "-" \o Itoa(0 - n)
    ELSE IF n < 10 THEN CharAt(Digits, n + 1)
    ELSE Itoa(n \div 10) \o CharAt(Digits, (n % 10) + 1)

DigitVal(c) == (CHOOSE i \in 1..10 : CharAt(Digits, i) = c) - 1

RECURSIVE DigitsVal(_, _, _)
DigitsVal(s, i, acc) ==
    IF i > Len(s) THEN acc ELSE DigitsVal(s, i + 1, acc * 10 + DigitVal(CharAt(s, i)))

\* strconv.Atoi: an optional sign and then one or more decimal digits.  The
\* modelled strings are short, so the value is always in range.
Atoi(s) ==
    LET signed == Len(s) > 0 /\ CharAt(s, 1) \in {"+", "-"}
        start == IF signed THEN 2 ELSE 1
    IN  IF start > Len(s) \/ \E j \in start..Len(s) : ~IsDigit(CharAt(s, j))
        THEN [ok |-> FALSE, val |-> 0]
        ELSE [ok |-> TRUE,
              val |-> IF signed /\ CharAt(s, 1) = "-"
                      THEN 0 - DigitsVal(s, start, 0)
                      ELSE DigitsVal(s, start, 0)]

\* Flattener.formatValue, for the scalars a decoded document holds.  A
\* float64 with an integer value is written without a decimal point.
formatValue(v) ==
    CASE v.kind = "bool" -> IF v.bool THEN "true" ELSE "false"
      [] v.kind = "float64" -> Itoa(v.num)
      [] OTHER -> v.val

\* Flattener.joinKeys
joinKeys(prefix, key) == IF prefix = "" THEN key ELSE prefix \o "." \o key

\* Flattener.flattenRecursive, flattenMap and flattenSlice.  The map keys are
\* ranged over in the order ord induces; a later write to a path that is
\* already in the result replaces the earlier one.
RECURSIVE flattenRecursive(_, _, _, _)
RECURSIVE flattenMap(_, _, _, _, _, _)
RECURSIVE flattenSlice(_, _, _, _, _)
flattenRecursive(d, prefix, res, ord) ==
    CASE d.kind = "nil" -> res
      [] d.kind = "map" -> flattenMap(d.fields, RangeOrder(d.fields, ord), 1, prefix, res, ord)
      [] d.kind = "slice" -> flattenSlice(d.items, 1, prefix, res, ord)
      [] OTHER -> MapPut(res, prefix, formatValue(d))

flattenMap(fields, keys, i, prefix, res, ord) ==
    IF i > Len(keys) THEN res
    ELSE flattenMap(fields, keys, i + 1, prefix,
                    flattenRecursive(fields[keys[i]], joinKeys(prefix, keys[i]), res, ord),
                    ord)

flattenSlice(items, i, prefix, res, ord) ==
    IF i > Len(items) THEN res
    ELSE flattenSlice(items, i + 1, prefix,
                      flattenRecursive(items[i], joinKeys(prefix, Itoa(i - 1)), res, ord),
                      ord)

\* Flattener.Flatten
Flatten(d, ord) == flattenRecursive(d, "", EmptyMap, ord)

\* json.Unmarshal([]byte(value), &jsonValue) into an interface{}.  Numbers are
\* read as far as they are integers; fractions and exponents are outside the
\* modelled inputs.
RECURSIVE DecodeAt(_, _)
RECURSIVE DecodeElems(_, _, _)
RECURSIVE DecodeFields(_, _, _)
DecodeAt(s, i) ==
    IF i > Len(s) THEN JsonFail
    ELSE LET c == CharAt(s, i)
         IN  IF c = "\""
             THEN LET r == ReadString(s, i + 1, "")
                  IN  IF r.ok THEN [ok |-> TRUE, val |-> Str(r.val), next |-> r.next]
                      ELSE JsonFail
             ELSE IF c = "{"
             THEN LET j == SkipWs(s, i + 1)
                  IN  IF j <= Len(s) /\ CharAt(s, j) = "}"
                      THEN [ok |-> TRUE, val |-> Map(EmptyMap), next |-> j + 1]
                      ELSE DecodeFields(s, j, EmptyMap)
             ELSE IF c = "["
             THEN LET j == SkipWs(s, i + 1)
                  IN  IF j <= Len(s) /\ CharAt(s, j) = "]"
                      THEN [ok |-> TRUE, val |-> Slice(<<>>), next |-> j + 1]
                      ELSE DecodeElems(s, j, <<>>)
             ELSE IF IsDigit(c) /\ (c # "0" \/ SkipDigits(s, i) = i + 1)
             THEN [ok |-> TRUE, val |-> Num(DigitsVal(SubSeq(s, i, SkipDigits(s, i) - 1), 1, 0)),
                   next |-> SkipDigits(s, i)]
             ELSE IF i + 3 <= Len(s) /\ SubSeq(s, i, i + 3) = "true"
             THEN [ok |-> TRUE, val |-> Bool(TRUE), next |-> i + 4]
             ELSE IF i + 4 <= Len(s) /\ SubSeq(s, i, i + 4) = "false"
             THEN [ok |-> TRUE, val |-> Bool(FALSE), next |-> i + 5]
             ELSE IF i + 3 <= Len(s) /\ SubSeq(s, i, i + 3) = "null"
             THEN [ok |-> TRUE, val |-> Nil, next |-> i + 4]
             ELSE JsonFail

\* The elements of an array from position i (after "[" or ",").
DecodeElems(s, i, acc) ==
    LET v == DecodeAt(s, i)
    IN  IF ~v.ok THEN JsonFail
        ELSE LET j == SkipWs(s, v.next)
             IN  IF j > Len(s) THEN JsonFail
                 ELSE IF CharAt(s, j) = ","
                 THEN DecodeElems(s, SkipWs(s, j + 1), Append(acc, v.val))
                 ELSE IF CharAt(s, j) = "]"
                 THEN [ok |-> TRUE, val |-> Slice(Append(acc, v.val)), next |-> j + 1]
                 ELSE JsonFail

\* The members of an object from position i (after "{" or ",").
DecodeFields(s, i, m) ==
    IF i > Len(s) \/ CharAt(s, i) # "\"" THEN JsonFail
    ELSE LET k == ReadString(s, i + 1, "")
         IN  IF ~k.ok THEN JsonFail
             ELSE LET c == SkipWs(s, k.next)
                  IN  IF c > Len(s) \/ CharAt(s, c) # ":" THEN JsonFail
                      ELSE LET v == DecodeAt(s, SkipWs(s, c + 1))
                           IN  IF ~v.ok THEN JsonFail
                               ELSE LET j == SkipWs(s, v.next)
                                        m2 == MapPut(m, k.val, v.val)
                                    IN  IF j > Len(s) THEN JsonFail
                                        ELSE IF CharAt(s, j) = ","
                                        THEN DecodeFields(s, SkipWs(s, j + 1), m2)
                                        ELSE IF CharAt(s, j) = "}"
                                        THEN [ok |-> TRUE, val |-> Map(m2), next |-> j + 1]
                                        ELSE JsonFail

Unmarshal(s) ==
    LET r == DecodeAt(s, SkipWs(s, 1))
    IN  IF r.ok /\ SkipWs(s, r.next) > Len(s) THEN r ELSE JsonFail

\* Flattener.parseValue
parseValue(value) ==
    IF \/ HasPrefix(value, "{") /\ HasSuffix(value, "}")
       \/ HasPrefix(value, "[") /\ HasSuffix(value, "]")
    THEN LET r == Unmarshal(value) IN IF r.ok THEN r.val ELSE Str(value)
    ELSE Str(value)

\* Flattener.isArrayIndex
isArrayIndex(s) == Atoi(s).ok

\* What unflattenRecursive and Unflatten come to: the map they built, the
\* type conflict error, or the runtime panic of an index out of range.
UnflattenOk(fields) == [kind |-> "ok", fields |-> fields]
TypeConflict(key) == [kind |-> "error", key |-> key]
IndexPanic == [kind |-> "panic"]

\* for len(arr) <= index { arr = append(arr, nil) }
RECURSIVE Extend(_, _)
Extend(arr, index) == IF Len(arr) <= index THEN Extend(Append(arr, Nil), index) ELSE arr

\* Flattener.unflattenRecursive on the map `current`
RECURSIVE unflattenRecursive(_, _, _)
unflattenRecursive(current, parts, value) ==
    IF Len(parts) = 0 THEN UnflattenOk(current)
    ELSE LET key == parts[1]
             remaining == Tail(parts)
         IN  IF Len(remaining) = 0
             THEN UnflattenOk(MapPut(current, key, parseValue(value)))
             ELSE IF isArrayIndex(remaining[1])
             THEN LET existing == IF key \in DOMAIN current THEN current[key]
                                  ELSE Slice(<<>>)
                      index == Atoi(remaining[1]).val
                  IN  IF existing.kind # "slice" THEN TypeConflict(key)
                      ELSE IF index < 0 THEN IndexPanic
                      ELSE LET arr == Extend(existing.items, index)
                               slot == arr[index + 1]
                               child == IF slot.kind = "map" THEN slot.fields ELSE EmptyMap
                               r == unflattenRecursive(child, Tail(remaining), value)
                           IN  IF r.kind # "ok" THEN r
                               ELSE UnflattenOk(MapPut(current, key,
                                        Slice([arr EXCEPT ![index + 1] = Map(r.fields)])))
             ELSE LET existing == IF key \in DOMAIN current THEN current[key]
                                  ELSE Map(EmptyMap)
                  IN  IF existing.kind # "map" THEN TypeConflict(key)
                      ELSE LET r == unflattenRecursive(existing.fields, remaining, value)
                           IN  IF r.kind # "ok" THEN r
                               ELSE UnflattenOk(MapPut(current, key, Map(r.fields)))

\* Flattener.Unflatten when the flat map is ranged over in the order `keys`
RECURSIVE UnflattenFrom(_, _, _, _)
UnflattenFrom(fl, keys, i, res) ==
    IF i > Len(keys) THEN UnflattenOk(res)
    ELSE LET r == unflattenRecursive(res, Split(keys[i], "."), fl[keys[i]])
         IN  IF r.kind # "ok" THEN r ELSE UnflattenFrom(fl, keys, i + 1, r.fields)

Unflatten(fl, keys) == UnflattenFrom(fl, keys, 1, EmptyMap)

(***************************************************************************)
(* The root command's input: fmt.Scanln and the confirmation               *)
(***************************************************************************)

RECURSIVE TokenEnd(_, _)
TokenEnd(s, i) == IF i <= Len(s) /\ ~IsSpace(CharAt(s, i)) THEN TokenEnd(s, i + 1) ELSE i

\* fmt.Scanln(&response) on one input line: leading blanks are skipped and
\* the run of non-blank characters that follows is stored; an empty line
\* stores nothing.  runRoot ignores the error Scanln returns for an empty
\* line or for further words on the line.
Scanln(line) ==
    LET t == TrimLeft(line)
    IN  IF TokenEnd(t, 1) = 1 THEN "" ELSE SubSeq(t, 1, TokenEnd(t, 1) - 1)

ConfirmedAlways(resp) == TRUE

\* The negation of runRoot's `response != "y" && response != "Y"`
Confirmed(resp) == resp = "y" \/ resp = "Y"

\* Engine.ValidateChanges returns nil
ValidateChanges(chs) == \A i \in DOMAIN chs : chs[i].Key # ""

\* Before runRoot has read anything.
CliIdle ==
    /\ apply = FALSE
    /\ ci = FALSE
    /\ output = "console"
    /\ prompted = FALSE
    /\ response = ""
    /\ exitCode = -1

\* Before Flatten is called.
FlatIdle ==
    /\ data = Nil
    /\ flat = EmptyMap
    /\ unflat = [kind |-> "none"]

(***************************************************************************)
(* validator.Validator: classification of a (key, value) pair              *)
(***************************************************************************)

LowerLetters == "abcdefghijklmnopqrstuvwxyz"
UpperLetters == "ABCDEFGHIJKLMNOPQRSTUVWXYZ"

IsLower(c) == \E i \in 1..26 : CharAt(LowerLetters, i) = c
IsUpper(c) == \E i \in 1..26 : CharAt(UpperLetters, i) = c

ToLowerChar(c) ==
    IF IsUpper(c) THEN CharAt(LowerLetters, CHOOSE i \in 1..26 : CharAt(UpperLetters, i) = c)
    ELSE c

ToUpperChar(c) ==
    IF IsLower(c) THEN CharAt(UpperLetters, CHOOSE i \in 1..26 : CharAt(LowerLetters, i) = c)
    ELSE c

\* strings.ToLower, on ASCII text
RECURSIVE ToLower(_)
ToLower(s) ==
    IF Len(s) = 0 THEN "" ELSE ToLowerChar(CharAt(s, 1)) \o ToLower(SubSeq(s, 2, Len(s)))

\* strings.ReplaceAll(s, old, new) for a one-character old
RECURSIVE ReplaceAll(_, _, _)
ReplaceAll(s, old, new) ==
    IF Len(s) = 0 THEN ""
    ELSE (IF CharAt(s, 1) = old THEN new ELSE CharAt(s, 1))
             \o ReplaceAll(SubSeq(s, 2, Len(s)), old, new)

\* strings.Title, on ASCII text: a letter is put in upper case when the
\* character before it is not a letter, a digit or an underscore.
RECURSIVE TitleFrom(_, _)
TitleFrom(s, prev) ==
    IF Len(s) = 0 THEN ""
    ELSE LET c == CharAt(s, 1)
             sep == ~(IsLower(prev) \/ IsUpper(prev) \/ IsDigit(prev) \/ prev = "_")
         IN  (IF sep THEN ToUpperChar(c) ELSE c) \o TitleFrom(SubSeq(s, 2, Len(s)), c)

Title(s) == TitleFrom(s, " ")

\* strings.Trim(s, "/")
RECURSIVE TrimSlashes(_)
TrimSlashes(s) ==
    IF Len(s) > 0 /\ CharAt(s, 1) = "/" THEN TrimSlashes(SubSeq(s, 2, Len(s)))
    ELSE IF Len(s) > 0 /\ CharAt(s, Len(s)) = "/" THEN TrimSlashes(SubSeq(s, 1, Len(s) - 1))
    ELSE s

\* The characters of a URL scheme after the first.
IsSchemeChar(c) == IsLower(c) \/ IsUpper(c) \/ IsDigit(c) \/ c \in {"+", "-", "."}

\* The position of the last "@" of s, 0 when there is none.
RECURSIVE LastAt(_, _)
LastAt(s, i) == IF i = 0 THEN 0 ELSE IF CharAt(s, i) = "@" THEN i ELSE LastAt(s, i - 1)

\* The element of a one-element set. The({e : x \in {v}}) is e with x standing
\* for the value of v, which is computed once.
The(S) == CHOOSE r \in S : TRUE

\* The part of s before the first occurrence of sep, s when there is none.
CutBefore(s, sep) ==
    IF IndexFrom(s, sep, 1) = 0 THEN s ELSE SubSeq(s, 1, IndexFrom(s, sep, 1) - 1)

\* url.Parse after the scheme, the query and the fragment are cut off: the
\* authority follows "//" up to the next '/', the host is the authority
\* without its user information, the path is what follows the authority.
UrlParseRest(hasScheme, rest) ==
    LET hasAuth == HasPrefix(rest, "//") /\ (hasScheme \/ ~HasPrefix(rest, "///"))
        after == IF hasAuth THEN SubSeq(rest, 3, Len(rest)) ELSE ""
        slash == IndexFrom(after, "/", 1)
    IN  IF ~hasScheme /\ ~HasPrefix(rest, "/") /\ Contains(CutBefore(rest, "/"), ":")
        THEN [ok |-> FALSE, err |-> "first path segment in URL cannot contain colon"]
        ELSE [ok |-> TRUE,
              Host |-> The({SubSeq(authority, LastAt(authority, Len(authority)) + 1,
                                   Len(authority)) :
                            authority \in {IF slash = 0 THEN after
                                           ELSE SubSeq(after, 1, slash - 1)}}),
              Path |-> IF hasAuth
                       THEN (IF slash = 0 THEN "" ELSE SubSeq(after, slash, Len(after)))
                       ELSE IF hasScheme /\ ~HasPrefix(rest, "/") THEN ""
                       ELSE rest]

\* url.Parse once the fragment is cut off: the scheme is what precedes the
\* first ':' when that is a scheme name; the query is cut off.
UrlParseScheme(noFrag) ==
    LET colon == IndexFrom(noFrag, ":", 1)
        hasScheme == /\ colon > 1
                     /\ IsLower(CharAt(noFrag, 1)) \/ IsUpper(CharAt(noFrag, 1))
                     /\ \A j \in 2..(colon - 1) : IsSchemeChar(CharAt(noFrag, j))
    IN  IF colon = 1 THEN [ok |-> FALSE, err |-> "missing protocol scheme"]
        ELSE The({The({UrlParseRest(sch, rest) :
                           rest \in {CutBefore(IF sch
                                               THEN SubSeq(noFrag, colon + 1, Len(noFrag))
                                               ELSE noFrag, "?")}}) :
                      sch \in {hasScheme}})

\* url.Parse, as far as parseKeyVaultURI reads its result (Host and Path), for
\* text without percent escapes, blanks and control characters and with a
\* host made of letters, digits, '.', '-' and an optional port.
UrlParse(uri) == The({UrlParseScheme(noFrag) : noFrag \in {CutBefore(uri, "#")}})

ValueTypeRegular == "regular"
ValueTypeFeatureFlag == "feature_flag"
ValueTypeKeyVault == "keyvault"

SpecialValue(type, original, parsed) ==
    [Type |-> type, Original |-> original, ParsedValue |-> parsed]

KeyVaultReference(vaultURL, secretName, secretVersion) ==
    [VaultURL |-> vaultURL, SecretName |-> secretName, SecretVersion |-> secretVersion]

\* A returned (value, nil) and a returned (nil, error with this message).
Ok(v) == [ok |-> TRUE, val |-> v]
Err(msg) == [ok |-> FALSE, err |-> msg]

\* Validator.isValidSecretName
isValidSecretName(name) ==
    /\ Len(name) >= 1
    /\ Len(name) <= 127
    /\ \A i \in 1..Len(name) :
           LET r == CharAt(name, i)
           IN  IsLower(r) \/ IsUpper(r) \/ IsDigit(r) \/ r = "-" \/ r = "_"

\* Validator.parseKeyVaultURI after url.Parse has succeeded
parseKeyVaultPath(host, pathParts) ==
    IF Len(pathParts) < 2 \/ pathParts[1] # "secrets"
    THEN Err("invalid Key Vault secret path")
    ELSE IF ~isValidSecretName(pathParts[2])
    THEN Err("invalid secret name: " \o pathParts[2])
    ELSE Ok(KeyVaultReference("https://" \o host, pathParts[2],
                IF Len(pathParts) > 2 THEN pathParts[3] ELSE ""))

\* Validator.parseKeyVaultURI
parseKeyVaultURI(uri) ==
    The({IF ~parsedURL.ok THEN Err("invalid Key Vault URI: " \o parsedURL.err)
        ELSE IF ~Contains(parsedURL.Host, "vault.azure.net")
        THEN Err("not a valid Key Vault URI")
        ELSE The({parseKeyVaultPath(parsedURL.Host, pathParts) :
                      pathParts \in {Split(TrimSlashes(parsedURL.Path), "/")}}) :
         parsedURL \in {UrlParse(uri)}})

\* Validator.parseKeyVaultReference
parseKeyVaultReference(value) ==
    IF HasPrefix(value, "@Microsoft.KeyVault(") /\ HasSuffix(value, ")")
    THEN The({IF "SecretUri" \notin DOMAIN params
                  THEN Err("missing SecretUri in Key Vault reference")
                  ELSE parseKeyVaultURI(params["SecretUri"]) :
              params \in {ParseParams(Split(TrimPrefix(TrimSuffix(value, ")"),
                                                       "@Microsoft.KeyVault("), ";"),
                                      1, EmptyMap)}})
    ELSE IF HasPrefix(value, "https://") /\ Contains(value, "vault.azure.net")
    THEN parseKeyVaultURI(value)
    ELSE IF HasPrefix(value, "https://") THEN Err("not a valid Key Vault URI")
    ELSE Err("invalid Key Vault reference format")

\* Validator.validateKeyVaultReference: the error message, "" for nil
validateKeyVaultReference(ref) ==
    IF ~HasPrefix(ref.VaultURL, "https://") \/ ~Contains(ref.VaultURL, "vault.azure.net")
    THEN "invalid vault URL format"
    ELSE IF ref.SecretName = "" THEN "secret name cannot be empty"
    ELSE ""

\* Validator.isFeatureFlagKey: the eight patterns on the key in lower case
isFeatureFlagKey(key) ==
    LET k == ToLower(key)
    IN  \/ HasPrefix(k, "feature.")
        \/ HasPrefix(k, "flag.")
        \/ HasSuffix(k, ".enabled")
        \/ HasSuffix(k, ".disabled")
        \/ HasPrefix(k, "enable.")
        \/ HasPrefix(k, "disable.")
        \/ HasSuffix(k, ".feature")
        \/ HasSuffix(k, ".flag")

\* Validator.extractFeatureDescription
extractFeatureDescription(key) == Title(ReplaceAll(ReplaceAll(key, ".", " "), "_", " "))

FeatureFlag(description, enabled) == [Description |-> description, Enabled |-> enabled]

parseFeatureFlagExact(key, value) ==
    IF isFeatureFlagKey(key)
    THEN IF value \in {"true", "1", "yes", "on", "enabled"}
         THEN Ok(FeatureFlag(extractFeatureDescription(key), TRUE))
         ELSE IF value \in {"false", "0", "no", "off", "disabled"}
         THEN Ok(FeatureFlag(extractFeatureDescription(key), FALSE))
         ELSE Err("invalid feature flag value: " \o value)
    ELSE Err("not a feature flag key")

\* Validator.parseFeatureFlag
parseFeatureFlag(key, value) ==
    IF isFeatureFlagKey(key)
    THEN IF ToLower(value) \in {"true", "1", "yes", "on", "enabled"}
         THEN Ok(FeatureFlag(extractFeatureDescription(key), TRUE))
         ELSE IF ToLower(value) \in {"false", "0", "no", "off", "disabled"}
         THEN Ok(FeatureFlag(extractFeatureDescription(key), FALSE))
         ELSE Err("invalid feature flag value: " \o value)
    ELSE Err("not a feature flag key")

\* Validator.validateFeatureFlag: the error message, "" for nil
validateFeatureFlag(ff) ==
    IF ff.Description = "" THEN "feature flag should have a description" ELSE ""

\* The two Key Vault branches of ValidateAndParseValue
KeyVaultBranch(value) ==
    The({IF kvRef.ok
        THEN IF validateKeyVaultReference(kvRef.val) # ""
             THEN Err("Key Vault validation error: " \o validateKeyVaultReference(kvRef.val))
             ELSE Ok(SpecialValue(ValueTypeKeyVault, value, kvRef.val))
        ELSE Err("invalid Key Vault reference: " \o kvRef.err) :
         kvRef \in {parseKeyVaultReference(value)}})

IsKeyVaultCandidateNone(value) == FALSE

\* The conditions under which ValidateAndParseValue takes a Key Vault branch
IsKeyVaultCandidate(value) ==
    \/ HasPrefix(value, "@Microsoft.KeyVault(")
    \/ HasPrefix(value, "https://") /\ Contains(value, "vault.azure.net")

\* Validator.ValidateAndParseValue
ValidateAndParseValue(key, value) ==
    IF IsKeyVaultCandidate(value) THEN KeyVaultBranch(value)
    ELSE The({IF ff.ok
             THEN IF validateFeatureFlag(ff.val) # ""
                  THEN Err("feature flag validation error: " \o validateFeatureFlag(ff.val))
                  ELSE Ok(SpecialValue(ValueTypeFeatureFlag, value, ff.val))
             ELSE Ok(SpecialValue(ValueTypeRegular, value, value)) :
              ff \in {parseFeatureFlag(key, value)}})

ValidationError(key, value, message, type) ==
    [Key |-> key, Value |-> value, Message |-> message, Type |-> type]

\* The errors ValidateConfiguration appends for one entry of the map
ValidateEntry(key, value) ==
    The({IF ~r.ok THEN <<ValidationError(key, value, r.err, "parsing_error")>>
        ELSE IF r.val.Type = ValueTypeKeyVault
        THEN IF validateKeyVaultReference(r.val.ParsedValue) # ""
             THEN <<ValidationError(key, value,
                        "Key Vault validation error: "
                            \o validateKeyVaultReference(r.val.ParsedValue),
                        "keyvault_error")>>
             ELSE <<>>
        ELSE IF r.val.Type = ValueTypeFeatureFlag
        THEN IF validateFeatureFlag(r.val.ParsedValue) # ""
             THEN <<ValidationError(key, value,
                        "Feature flag validation error: "
                            \o validateFeatureFlag(r.val.ParsedValue),
                        "feature_flag_error")>>
             ELSE <<>>
        ELSE <<>> :
         r \in {ValidateAndParseValue(key, value)}})

ValidateEntryFirstOnly(config, keys, i) ==
    IF i = 1 THEN ValidateEntry(keys[i], config[keys[i]]) ELSE <<>>

\* The body of ValidateConfiguration's loop for the i-th key visited
ValidateStep(config, keys, i) == ValidateEntry(keys[i], config[keys[i]])

\* Validator.ValidateConfiguration when the map is ranged over in the order
\* `keys`: the error list (the error result is always nil)
RECURSIVE ValidateFrom(_, _, _, _)
ValidateFrom(config, keys, i, errs) ==
    IF i > Len(keys) THEN errs
    ELSE ValidateFrom(config, keys, i + 1, errs \o ValidateStep(config, keys, i))

ValidateConfiguration(config, keys) == ValidateFrom(config, keys, 1, <<>>)

\* Before the validator is called.
ValidIdle ==
    /\ vkey = ""
    /\ vvalue = ""
    /\ special = [ok |-> FALSE, err |-> "none"]
    /\ errors = <<>>

(***************************************************************************)
(* SpecCompare: Compare on every bounded input                             *)
(***************************************************************************)

NoError == [kind |-> "none"]
NoResult == [kind |-> "none"]

\* The sync engine before Engine.ApplyChanges is called.
ApplyIdle ==
    /\ operations = <<>>
    /\ attempt = 0
    /\ opIdx = 0
    /\ lastErr = NoError
    /\ result = NoResult
    /\ ctxDone = FALSE
    /\ calls = <<>>
    /\ issued = <<>>
    /\ waits = <<>>
    /\ outcomes = <<>>

InitCompare ==
    /\ pc = "fetched"
    /\ local \in LocalMaps
    /\ remote \in RemoteLists
    /\ strict \in BOOLEAN
    /\ changes = <<>>
    /\ store = EmptyMap
    /\ store0 = EmptyMap
    /\ labelFilter = ""
    /\ round = 1
    /\ ApplyIdle
    /\ CliIdle
    /\ FlatIdle
    /\ ValidIdle

\* diffEngine.Compare(localConfig, remoteConfig, strict)
DoCompare ==
    /\ pc = "fetched"
    /\ \E lo \in Orders(DOMAIN local), ro \in Orders(RemoteKeys(remote)) :
           changes' = Compare(local, remote, strict, lo, ro)
    /\ pc' = "compared"
    /\ UNCHANGED <<local, remote, strict, storeVars, applyVars>>
    /\ UNCHANGED <<cliVars, flatVars>>
    /\ UNCHANGED validVars

NextCompare == DoCompare

SpecCompare == InitCompare /\ [][NextCompare]_vars

(***************************************************************************)
(* The store, azure.Client.FetchAll and azure.Client.ApplyChanges          *)
(***************************************************************************)

MaxStore == 2

SyncKeys == {"a", "b"}
SyncLabels == {"", "prod"}
BareVaultUri == "https://v.vault.azure.net/secrets/s"
CanonicalRef == "@Microsoft.KeyVault(SecretUri=https://v.vault.azure.net/secrets/s)"
SyncLocalValues == {"1", BareVaultUri, CanonicalRef}
SyncStoreValues == {"1", "2"}

SyncLocalMaps == UNION {[S -> SyncLocalValues] : S \in SUBSET SyncKeys}

RetryLocalValues == {"1", BareVaultUri}

RetryLocalMaps == UNION {[S -> RetryLocalValues] : S \in SUBSET SyncKeys}

StoreSlots == SyncKeys \X SyncLabels

Stores == UNION {[S -> SyncStoreValues] :
                    S \in {T \in SUBSET StoreSlots : Cardinality(T) <= MaxStore}}

\* client.SetSetting(ctx, key, &value, options): an upsert of (key, label).
\* An empty label is the null label.
StoreSet(st, key, value, label) == MapPut(st, <<key, label>>, value)

\* client.DeleteSetting(ctx, key, {Label: &label})
StoreDelete(st, key, label) == MapDelete(st, <<key, label>>)

\* The settings the pager lists under the selector: all of them without a
\* label filter, those with that label otherwise.
Selected(st, filter) ==
    {slot \in DOMAIN st : filter = "" \/ slot[2] = filter}

\* The ConfigItem FetchAll appends for one setting.
FetchedItem(st, slot) ==
    [Key |-> slot[1], Value |-> normalizeRetrievedValue(st[slot]),
     Label |-> slot[2], Tags |-> NoTags]

\* FetchAll's result when the service lists the settings in the order `ord`.
FetchAll(st, ord) == [i \in DOMAIN ord |-> FetchedItem(st, ord[i])]

ChangeOperation(op, key, value, label, tags) ==
    [Operation |-> op, Key |-> key, Value |-> value, Label |-> label, Tags |-> tags]

convertOne(change) ==
    ChangeOperation(change.Type, change.Key,
        IF change.Type = ChangeTypeDelete THEN change.OldValue ELSE change.NewValue,
        change.Label, change.Tags)

convertToOperationsReversed(chs) ==
    [i \in DOMAIN chs |-> convertOne(chs[Len(chs) + 1 - i])]

convertToOperations(chs) == [i \in DOMAIN chs |-> convertOne(chs[i])]

\* The store call Client.ApplyChanges issues for one operation.
StoreCallOf(op) ==
    IF op.Operation = "delete"
    THEN [call |-> "delete", key |-> op.Key, value |-> "", label |-> op.Label,
          contentType |-> ""]
    ELSE [call |-> "set", key |-> op.Key,
          value |-> formatValueForStorage(op.Value, detectContentType(op.Value)),
          label |-> op.Label, contentType |-> detectContentType(op.Value)]

\* The store after a store call that succeeded.
StoreAfter(st, c) ==
    IF c.call = "delete" THEN StoreDelete(st, c.key, c.label)
    ELSE StoreSet(st, c.key, c.value, c.label)

(***************************************************************************)
(* sync.Engine                                                             *)
(***************************************************************************)

maxRetries == 3
baseDelay == 1

BackoffExponential(n) == (2 ^ n) * baseDelay

\* delay := time.Duration(attempt+1) * e.baseDelay, in seconds
Backoff(n) == (n + 1) * baseDelay

InitSync ==
    /\ pc = "start"
    /\ local \in SyncLocalMaps
    /\ store \in Stores
    /\ store0 = store
    /\ labelFilter \in SyncLabels
    /\ strict \in BOOLEAN
    /\ remote = <<>>
    /\ changes = <<>>
    /\ round = 1
    /\ ApplyIdle
    /\ CliIdle
    /\ FlatIdle
    /\ ValidIdle

InitRetry ==
    /\ pc = "start"
    /\ local \in RetryLocalMaps
    /\ store \in Stores
    /\ store0 = store
    /\ labelFilter = ""
    /\ strict \in BOOLEAN
    /\ remote = <<>>
    /\ changes = <<>>
    /\ round = 1
    /\ ApplyIdle
    /\ CliIdle
    /\ FlatIdle
    /\ ValidIdle

\* azureClient.FetchAll(ctx, label)
Fetch ==
    /\ pc = "start"
    /\ \E ord \in Orders(Selected(store, labelFilter)) : remote' = FetchAll(store, ord)
    /\ pc' = "fetched"
    /\ UNCHANGED <<local, strict, changes, storeVars, applyVars>>
    /\ UNCHANGED <<cliVars, flatVars>>
    /\ UNCHANGED validVars

\* azureClient.FetchAll(ctx, label) with the same filter, after the apply has
\* returned success.
FetchAgain ==
    /\ pc = "returned"
    /\ result.kind = "ok"
    /\ round = 1
    /\ round' = 2
    /\ \E ord \in Orders(Selected(store, labelFilter)) : remote' = FetchAll(store, ord)
    /\ pc' = "fetched"
    /\ UNCHANGED <<local, strict, changes, store, store0, labelFilter, applyVars>>
    /\ UNCHANGED <<cliVars, flatVars>>
    /\ UNCHANGED validVars

\* Engine.ApplyChanges(ctx, changes, strict), called at position p
EngineApplyAt(p) ==
    /\ pc = p
    /\ round = 1
    /\ IF Len(changes) = 0
       THEN /\ result' = [kind |-> "ok"]
            /\ pc' = "returned"
            /\ UNCHANGED <<operations, attempt, opIdx, issued>>
       ELSE /\ operations' = convertToOperations(changes)
            /\ issued' = [i \in DOMAIN changes |-> 0]
            /\ attempt' = 0
            /\ opIdx' = 1
            /\ pc' = "applying"
            /\ UNCHANGED result
    /\ UNCHANGED <<diffVars, storeVars, lastErr, ctxDone, calls, waits, outcomes>>

\* Engine.ApplyChanges called on Compare's result
EngineApply ==
    /\ EngineApplyAt("compared")
    /\ UNCHANGED <<cliVars, flatVars>>
    /\ UNCHANGED validVars

\* One store call of Client.ApplyChanges succeeds; after the last operation
\* the attempt returns nil and applyWithRetry returns nil.
StoreCallOk ==
    /\ pc = "applying"
    /\ ~ctxDone
    /\ LET c == StoreCallOf(operations[opIdx])
       IN  /\ store' = StoreAfter(store, c)
           /\ calls' = Append(calls, c @@ [ok |-> TRUE])
           /\ issued' = [issued EXCEPT ![opIdx] = @ + 1]
    /\ IF opIdx = Len(operations)
       THEN /\ outcomes' = Append(outcomes, "ok")
            /\ result' = [kind |-> "ok"]
            /\ pc' = "returned"
            /\ UNCHANGED opIdx
       ELSE /\ opIdx' = opIdx + 1
            /\ UNCHANGED <<outcomes, result, pc>>
    /\ UNCHANGED <<diffVars, store0, labelFilter, round, operations, attempt,
                   lastErr, ctxDone, waits>>
    /\ UNCHANGED <<cliVars, flatVars>>
    /\ UNCHANGED validVars

StoreCallFailContinues ==
    /\ pc = "applying"
    /\ LET c == StoreCallOf(operations[opIdx])
           err == [kind |-> "store", call |-> c.call, key |-> c.key, attempt |-> attempt]
       IN  /\ calls' = Append(calls, c @@ [ok |-> FALSE])
           /\ issued' = [issued EXCEPT ![opIdx] = @ + 1]
           /\ lastErr' = err
           /\ outcomes' = Append(outcomes, "fail")
           /\ IF attempt = maxRetries
              THEN IF opIdx < Len(operations)
                   THEN /\ opIdx' = opIdx + 1
                        /\ UNCHANGED <<result, pc>>
                   ELSE /\ result' = [kind |-> "exhausted", attempts |-> maxRetries + 1,
                                      err |-> err]
                        /\ pc' = "returned"
                        /\ UNCHANGED opIdx
              ELSE /\ pc' = "waiting"
                   /\ UNCHANGED <<result, opIdx>>
    /\ UNCHANGED <<diffVars, storeVars, operations, attempt, ctxDone, waits>>
    /\ UNCHANGED <<cliVars, flatVars>>
    /\ UNCHANGED validVars

\* One store call fails: Client.ApplyChanges returns the wrapped error, and
\* applyWithRetry records it, then gives up (last attempt) or starts to wait.
StoreCallFail ==
    /\ pc = "applying"
    /\ LET c == StoreCallOf(operations[opIdx])
           err == [kind |-> "store", call |-> c.call, key |-> c.key, attempt |-> attempt]
       IN  /\ calls' = Append(calls, c @@ [ok |-> FALSE])
           /\ issued' = [issued EXCEPT ![opIdx] = @ + 1]
           /\ lastErr' = err
           /\ outcomes' = Append(outcomes, "fail")
           /\ IF attempt = maxRetries
              THEN /\ result' = [kind |-> "exhausted", attempts |-> maxRetries + 1,
                                 err |-> err]
                   /\ pc' = "returned"
              ELSE /\ pc' = "waiting"
                   /\ UNCHANGED result
    /\ UNCHANGED <<diffVars, storeVars, operations, attempt, opIdx, ctxDone, waits>>
    /\ UNCHANGED <<cliVars, flatVars>>
    /\ UNCHANGED validVars

\* case <-time.After(delay): the delay has passed, the next attempt starts.
TimerFires ==
    /\ pc = "waiting"
    /\ ~ctxDone
    /\ waits' = Append(waits, Backoff(attempt))
    /\ attempt' = attempt + 1
    /\ opIdx' = 1
    /\ calls' = <<>>
    /\ pc' = "applying"
    /\ UNCHANGED <<diffVars, storeVars, operations, lastErr, result, ctxDone, issued,
                   outcomes>>
    /\ UNCHANGED <<cliVars, flatVars>>
    /\ UNCHANGED validVars

WaitIgnoresCancel ==
    /\ pc = "waiting"
    /\ ctxDone
    /\ waits' = Append(waits, Backoff(attempt))
    /\ attempt' = attempt + 1
    /\ opIdx' = 1
    /\ calls' = <<>>
    /\ pc' = "applying"
    /\ UNCHANGED <<diffVars, storeVars, operations, lastErr, result, ctxDone, issued,
                   outcomes, cliVars, flatVars>>
    /\ UNCHANGED validVars

\* case <-ctx.Done(): return ctx.Err()
WaitCancelled ==
    /\ pc = "waiting"
    /\ ctxDone
    /\ result' = [kind |-> "cancelled"]
    /\ pc' = "returned"
    /\ UNCHANGED <<diffVars, storeVars, operations, attempt, opIdx, lastErr, ctxDone,
                   calls, issued, waits, outcomes>>
    /\ UNCHANGED <<cliVars, flatVars>>
    /\ UNCHANGED validVars

\* The caller cancels ctx while Engine.ApplyChanges runs.
Cancel ==
    /\ pc \in {"applying", "waiting"}
    /\ ~ctxDone
    /\ ctxDone' = TRUE
    /\ UNCHANGED <<pc, diffVars, storeVars, operations, attempt, opIdx, lastErr, result,
                   calls, issued, waits, outcomes>>
    /\ UNCHANGED <<cliVars, flatVars>>
    /\ UNCHANGED validVars

\* A sync in which every store call succeeds, followed by a second fetch and
\* compare: fetch, Compare, ApplyChanges, fetch, Compare.
NextSync ==
    \/ Fetch
    \/ DoCompare
    \/ EngineApply
    \/ StoreCallOk
    \/ FetchAgain

SpecSync == InitSync /\ [][NextSync]_vars

\* One reconciliation in which store calls may fail and ctx may be cancelled.
NextRetry ==
    \/ Fetch
    \/ DoCompare
    \/ EngineApply
    \/ StoreCallOk
    \/ StoreCallFail
    \/ TimerFires
    \/ WaitCancelled
    \/ Cancel

SpecRetry == InitRetry /\ [][NextRetry]_vars

(***************************************************************************)
(* SpecCli: one run of the root command                                    *)
(***************************************************************************)

CliLocalKeys == {"a", ""}

CliLocalMaps == UNION {[S -> {"1"}] : S \in SUBSET CliLocalKeys}

\* The lines the user may type at the confirmation prompt ("" also stands
\* for a closed standard input).
AnswerLines == {"y", "Y", "n", "", "yes", " y", "y n"}

InitCli ==
    /\ pc = "start"
    /\ local \in CliLocalMaps
    /\ store \in Stores
    /\ store0 = store
    /\ labelFilter \in SyncLabels
    /\ strict \in BOOLEAN
    /\ remote = <<>>
    /\ changes = <<>>
    /\ round = 1
    /\ ApplyIdle
    /\ apply \in BOOLEAN
    /\ ci \in BOOLEAN
    /\ output \in {"console", "json"}
    /\ prompted = FALSE
    /\ response = ""
    /\ exitCode = -1
    /\ FlatIdle
    /\ ValidIdle

\* runRoot returns an error before Compare: the file is missing or does not
\* parse, the client cannot be created, or FetchAll fails.  main exits with 1.
RootEarlyError ==
    /\ pc = "start"
    /\ pc' = "exited"
    /\ exitCode' = 1
    /\ UNCHANGED <<diffVars, storeVars, applyVars, apply, ci, output, prompted, response,
                   flatVars>>
    /\ UNCHANGED validVars

\* if output == "json" { return outputJSON(changes, diffEngine) }
RootJson ==
    /\ pc = "compared"
    /\ output = "json"
    /\ pc' = "exited"
    /\ exitCode' = 0
    /\ UNCHANGED <<diffVars, storeVars, applyVars, apply, ci, output, prompted, response,
                   flatVars>>
    /\ UNCHANGED validVars

\* if ci { os.Exit(1) when there are changes, os.Exit(0) otherwise }
RootCiExit ==
    /\ pc = "compared"
    /\ output # "json"
    /\ ci
    /\ pc' = "exited"
    /\ exitCode' = IF Len(changes) > 0 THEN 1 ELSE 0
    /\ UNCHANGED <<diffVars, storeVars, applyVars, apply, ci, output, prompted, response,
                   flatVars>>
    /\ UNCHANGED validVars

\* Without --apply runRoot prints the hint and returns nil.
RootDryRun ==
    /\ pc = "compared"
    /\ output # "json"
    /\ ~ci
    /\ ~apply
    /\ pc' = "exited"
    /\ exitCode' = 0
    /\ UNCHANGED <<diffVars, storeVars, applyVars, apply, ci, output, prompted, response,
                   flatVars>>
    /\ UNCHANGED validVars

\* With --apply and no changes runRoot prints "No changes to apply." and
\* returns nil.
RootNoChanges ==
    /\ pc = "compared"
    /\ output # "json"
    /\ ~ci
    /\ apply
    /\ Len(changes) = 0
    /\ pc' = "exited"
    /\ exitCode' = 0
    /\ UNCHANGED <<diffVars, storeVars, applyVars, apply, ci, output, prompted, response,
                   flatVars>>
    /\ UNCHANGED validVars

\* With --apply and changes runRoot prompts and reads the answer; unless it
\* is "y" or "Y" it prints "Operation cancelled." and returns nil.
RootPrompt ==
    /\ pc = "compared"
    /\ output # "json"
    /\ ~ci
    /\ apply
    /\ Len(changes) > 0
    /\ prompted' = TRUE
    /\ \E line \in AnswerLines :
           /\ response' = Scanln(line)
           /\ IF Confirmed(Scanln(line))
              THEN /\ pc' = "confirmed"
                   /\ UNCHANGED exitCode
              ELSE /\ pc' = "exited"
                   /\ exitCode' = 0
    /\ UNCHANGED <<diffVars, storeVars, applyVars, apply, ci, output, flatVars>>
    /\ UNCHANGED validVars

\* syncEngine.ValidateChanges(changes), then syncEngine.ApplyChanges
RootApply ==
    /\ pc = "confirmed"
    /\ IF ValidateChanges(changes)
       THEN /\ EngineApplyAt("confirmed")
            /\ UNCHANGED cliVars
       ELSE /\ pc' = "exited"
            /\ exitCode' = 1
            /\ UNCHANGED <<diffVars, storeVars, applyVars, apply, ci, output, prompted,
                           response>>
    /\ UNCHANGED flatVars
    /\ UNCHANGED validVars

\* ApplyChanges has returned: runRoot returns nil or the wrapped error, and
\* main exits with 0 or 1.
RootReturn ==
    /\ pc = "returned"
    /\ pc' = "exited"
    /\ exitCode' = IF result.kind = "ok" THEN 0 ELSE 1
    /\ UNCHANGED <<diffVars, storeVars, applyVars, apply, ci, output, prompted, response,
                   flatVars>>
    /\ UNCHANGED validVars

\* runRoot passes context.Background(), which is never cancelled.
NextCli ==
    \/ RootEarlyError
    \/ Fetch
    \/ DoCompare
    \/ RootJson
    \/ RootCiExit
    \/ RootDryRun
    \/ RootNoChanges
    \/ RootPrompt
    \/ RootApply
    \/ StoreCallOk
    \/ StoreCallFail
    \/ TimerFires
    \/ RootReturn

SpecCli == InitCli /\ [][NextCli]_vars

(***************************************************************************)
(* SpecFlat: Flatten on every bounded document, then Unflatten             *)
(***************************************************************************)

MaxLeaves == 3

FlatKeys == {"a", "b", "a.b", "0"}

Scalars == {Str("x"), Str("[1]"), Num(1)}

ScalarLists == {Slice(l) : l \in UNION {[1..n -> Scalars] : n \in 0..MaxLeaves}}

SmallMaps ==
    {Map(m) : m \in UNION {[S -> Scalars] :
                              S \in {T \in SUBSET FlatKeys : Cardinality(T) <= 1}}}

\* Lists of scalars and objects of scalars, and one level around them.
Composites == ScalarLists \cup SmallMaps
Wrapped ==
    {Slice(<<t>>) : t \in Composites}
        \cup {Map(k :> t) : k \in FlatKeys, t \in Composites}

RECURSIVE LeafCount(_)
RECURSIVE LeafCountSeq(_, _)
LeafCount(t) ==
    CASE t.kind = "map" ->
             LeafCountSeq([i \in 1..Cardinality(DOMAIN t.fields) |->
                              t.fields[(CHOOSE o \in Perms(DOMAIN t.fields) : TRUE)[i]]], 1)
      [] t.kind = "slice" -> LeafCountSeq(t.items, 1)
      [] t.kind = "nil" -> 0
      [] OTHER -> 1

LeafCountSeq(items, i) ==
    IF i > Len(items) THEN 0 ELSE LeafCount(items[i]) + LeafCountSeq(items, i + 1)

\* The decoded documents: JSON objects of up to two members.
Documents ==
    {d \in {Map(m) : m \in
               UNION ({[S -> Scalars \cup Composites] :
                          S \in {T \in SUBSET FlatKeys : Cardinality(T) <= 2}}
                      \cup {[S -> Wrapped] :
                               S \in {T \in SUBSET FlatKeys : Cardinality(T) = 1}})} :
        LeafCount(d) <= MaxLeaves}

InitFlat ==
    /\ pc = "decoded"
    /\ data \in Documents
    /\ flat = EmptyMap
    /\ unflat = [kind |-> "none"]
    /\ local = EmptyMap
    /\ remote = <<>>
    /\ strict = FALSE
    /\ changes = <<>>
    /\ store = EmptyMap
    /\ store0 = EmptyMap
    /\ labelFilter = ""
    /\ round = 1
    /\ ApplyIdle
    /\ CliIdle
    /\ ValidIdle

\* flattener.Flatten(data)
DoFlatten ==
    /\ pc = "decoded"
    /\ \E ord \in Orders(FlatKeys) : flat' = Flatten(data, ord)
    /\ pc' = "flattened"
    /\ UNCHANGED <<data, unflat, diffVars, storeVars, applyVars, cliVars>>
    /\ UNCHANGED validVars

\* flattener.Unflatten(flat)
DoUnflatten ==
    /\ pc = "flattened"
    /\ \E keys \in Orders(DOMAIN flat) : unflat' = Unflatten(flat, keys)
    /\ pc' = "unflattened"
    /\ UNCHANGED <<data, flat, diffVars, storeVars, applyVars, cliVars>>
    /\ UNCHANGED validVars

NextFlat ==
    \/ DoFlatten
    \/ DoUnflatten

SpecFlat == InitFlat /\ [][NextFlat]_vars

(***************************************************************************)
(* SpecClassify: ValidateAndParseValue on every bounded (key, value)       *)
(***************************************************************************)

ClassifyKeys ==
    {"feature.x", "flag.x", "x.enabled", "x.disabled", "enable.x", "disable.x",
     "x.feature", "x.flag", "Feature.New_UI", "db.host", "feature", "xenabled"}

VersionedUri == "https://v.vault.azure.net/secrets/s/1"
LongerUri == "https://v.vault.azure.net/secrets/s/1/x"

PlainValues ==
    {"localhost", "https://api.example.com/v1", "", "true", "ON", "Yes", "1", "enabled",
     "false", "0", "no", "Off", "Disabled", "maybe"}

BareCandidates ==
    {BareVaultUri, VersionedUri, LongerUri,
     "https://v.vault.azure.net/secrets/",
     "https://v.vault.azure.net/keys/s",
     "https://example.com/vault.azure.net/secrets/s",
     "https://v.vault.azure.net/secrets/bad.name"}

MarkedCandidates ==
    {CanonicalRef,
     "@Microsoft.KeyVault(SecretUri=https://example.com/secrets/s)",
     "@Microsoft.KeyVault(SecretUri=http://v.vault.azure.net/secrets/s)",
     "@Microsoft.KeyVault(VaultName=v;SecretName=s)",
     "@Microsoft.KeyVault(SecretUri=https://v.vault.azure.net/secrets/s",
     "@Microsoft.KeyVault( SecretUri = https://v.vault.azure.net/secrets/s/1 ; X=1)",
     "@Microsoft.KeyVault(SecretUri=https://v.vault.azure.net/secrets/s/1/x)"}

ClassifyValues == PlainValues \cup BareCandidates \cup MarkedCandidates

InitClassify ==
    /\ pc = "classify"
    /\ vkey \in ClassifyKeys
    /\ vvalue \in ClassifyValues
    /\ special = [ok |-> FALSE, err |-> "none"]
    /\ errors = <<>>
    /\ local = EmptyMap
    /\ remote = <<>>
    /\ strict = FALSE
    /\ changes = <<>>
    /\ store = EmptyMap
    /\ store0 = EmptyMap
    /\ labelFilter = ""
    /\ round = 1
    /\ ApplyIdle
    /\ CliIdle
    /\ FlatIdle

\* validator.ValidateAndParseValue(key, value)
DoClassify ==
    /\ pc = "classify"
    /\ special' = ValidateAndParseValue(vkey, vvalue)
    /\ pc' = "classified"
    /\ UNCHANGED <<vkey, vvalue, errors, diffVars, storeVars, applyVars, cliVars, flatVars>>

NextClassify == DoClassify

SpecClassify == InitClassify /\ [][NextClassify]_vars

(***************************************************************************)
(* SpecValidate: FlattenAndValidate on every bounded document              *)
(***************************************************************************)

MaxConfig == 2

ConfigKeys == {"feature.x", "x.enabled", "db.host", "Flag.Y"}

ConfigValues ==
    {"true", "maybe", BareVaultUri,
     "@Microsoft.KeyVault(SecretUri=https://example.com/secrets/s)"}

\* JSON objects whose members are strings, and the same objects nested under
\* the member "app".
FlatConfigs ==
    {Map(m) : m \in UNION {[S -> {Str(v) : v \in ConfigValues}] :
                              S \in {T \in SUBSET ConfigKeys : Cardinality(T) <= MaxConfig}}}

ConfigDocuments == FlatConfigs \cup {Map([k \in {"app"} |-> c]) : c \in FlatConfigs}

InitValidate ==
    /\ pc = "decoded"
    /\ data \in ConfigDocuments
    /\ flat = EmptyMap
    /\ unflat = [kind |-> "none"]
    /\ ValidIdle
    /\ local = EmptyMap
    /\ remote = <<>>
    /\ strict = FALSE
    /\ changes = <<>>
    /\ store = EmptyMap
    /\ store0 = EmptyMap
    /\ labelFilter = ""
    /\ round = 1
    /\ ApplyIdle
    /\ CliIdle

\* The member names of the objects of a document.
RECURSIVE MemberNames(_)
MemberNames(d) ==
    CASE d.kind = "map" ->
             DOMAIN d.fields \cup UNION {MemberNames(d.fields[k]) : k \in DOMAIN d.fields}
      [] d.kind = "slice" -> UNION {MemberNames(d.items[i]) : i \in DOMAIN d.items}
      [] OTHER -> {}

\* flattener.FlattenAndValidate(data): Flatten, then ValidateConfiguration on
\* the result; both are returned.  Both range over a map, each in an
\* arbitrary order.
DoFlattenAndValidate ==
    /\ pc = "decoded"
    /\ \E ord \in Orders(MemberNames(data)) :
           /\ flat' = Flatten(data, ord)
           /\ \E keys \in Orders(DOMAIN flat') : errors' = ValidateConfiguration(flat', keys)
    /\ pc' = "validated"
    /\ UNCHANGED <<data, unflat, vkey, vvalue, special, diffVars, storeVars, applyVars,
                   cliVars>>

NextValidate == DoFlattenAndValidate

SpecValidate == InitValidate /\ [][NextValidate]_vars

(***************************************************************************)
(* SpecUnflat: Unflatten on every bounded flat mapping                     *)
(***************************************************************************)

MaxFlat == 2

UnflatPaths == {"a", "a.b", "a.0", "a.0.x", "a.1.x", "a.-1.x", "b.2", "b.0.y"}

UnflatValues == {"v", "[1]"}

FlatMappings ==
    UNION {[S -> UnflatValues] :
              S \in {T \in SUBSET UnflatPaths : Cardinality(T) <= MaxFlat}}

\* A flat mapping as the caller of Unflatten holds it.
InitUnflat ==
    /\ pc = "flattened"
    /\ data = Nil
    /\ flat \in FlatMappings
    /\ unflat = [kind |-> "none"]
    /\ local = EmptyMap
    /\ remote = <<>>
    /\ strict = FALSE
    /\ changes = <<>>
    /\ store = EmptyMap
    /\ store0 = EmptyMap
    /\ labelFilter = ""
    /\ round = 1
    /\ ApplyIdle
    /\ CliIdle
    /\ ValidIdle

NextUnflat == DoUnflatten

SpecUnflat == InitUnflat /\ [][NextUnflat]_vars

(***************************************************************************)
(* SpecFetch: FetchAll on stores that hold references in every encoding    *)
(***************************************************************************)

SpacedRef == "@Microsoft.KeyVault( SecretUri = https://v.vault.azure.net/secrets/s ; X=1)"

FetchStoreValues ==
    {"1", "{\"a\":1}", "{\"uri\":\"https://example.com/x\"}",
     "{\"uri\":\"https://v.vault.azure.net/secrets/s\"}",
     CanonicalRef, SpacedRef, BareVaultUri}

FetchStores == UNION {[S -> FetchStoreValues] :
                         S \in {T \in SUBSET StoreSlots : Cardinality(T) <= MaxStore}}

InitFetch ==
    /\ pc = "start"
    /\ local = EmptyMap
    /\ store \in FetchStores
    /\ store0 = store
    /\ labelFilter \in SyncLabels
    /\ strict = FALSE
    /\ remote = <<>>
    /\ changes = <<>>
    /\ round = 1
    /\ ApplyIdle
    /\ CliIdle
    /\ FlatIdle
    /\ ValidIdle

NextFetch == Fetch

SpecFetch == InitFetch /\ [][NextFetch]_vars

(***************************************************************************)
(* Claims about Compare                                                    *)
(***************************************************************************)

\* The changes of list ch that carry key k.
ChangesFor(ch, k) == {i \in DOMAIN ch : ch[i].Key = k}

\* The remote value of key k: the value of the last item of the list with
\* that key, which is the one a lookup by key holds.
LastIndexOf(rem, k) == CHOOSE i \in DOMAIN rem :
    /\ rem[i].Key = k
    /\ \A j \in DOMAIN rem : rem[j].Key = k => j <= i

RemoteValue(rem, k) == rem[LastIndexOf(rem, k)].Value

\* C1: strict-mode gating.  A key present remotely and absent locally yields
\* no Delete when strict is false and exactly one Delete, carrying the remote
\* value as old value, when strict is true; no Delete names a local key.
C1_StrictGating ==
    pc = "compared" =>
        /\ \A k \in RemoteKeys(remote) \ DOMAIN local :
               LET dels == {i \in ChangesFor(changes, k) :
                               changes[i].Type = ChangeTypeDelete}
               IN  IF strict
                   THEN /\ Cardinality(dels) = 1
                        /\ \A i \in dels : changes[i].OldValue = RemoteValue(remote, k)
                   ELSE dels = {}
        /\ \A i \in DOMAIN changes :
               changes[i].Type = ChangeTypeDelete => changes[i].Key \notin DOMAIN local

C1_Witness ==
    /\ pc = "compared"
    /\ strict
    /\ \E i \in DOMAIN changes : changes[i].Type = ChangeTypeDelete
    /\ \E i \in DOMAIN changes : changes[i].Type = ChangeTypeAdd

\* C2: every local key is classified against the remote list.  Equal remote
\* value: no change; different remote value: exactly one Update with old =
\* remote value and new = local value; absent remotely: exactly one Add with
\* new = local value.  No other Add or Update exists and no key appears in
\* two changes.
C2_Classification ==
    pc = "compared" =>
        /\ \A k \in DOMAIN local :
               LET cs == ChangesFor(changes, k)
               IN  IF k \in RemoteKeys(remote)
                   THEN IF RemoteValue(remote, k) = local[k]
                        THEN cs = {}
                        ELSE /\ Cardinality(cs) = 1
                             /\ \A i \in cs :
                                    /\ changes[i].Type = ChangeTypeUpdate
                                    /\ changes[i].OldValue = RemoteValue(remote, k)
                                    /\ changes[i].NewValue = local[k]
                   ELSE /\ Cardinality(cs) = 1
                        /\ \A i \in cs :
                               /\ changes[i].Type = ChangeTypeAdd
                               /\ changes[i].NewValue = local[k]
        /\ \A i \in DOMAIN changes :
               changes[i].Type \in {ChangeTypeAdd, ChangeTypeUpdate}
                   => changes[i].Key \in DOMAIN local
        /\ \A i, j \in DOMAIN changes : changes[i].Key = changes[j].Key => i = j

C2_Witness ==
    /\ pc = "compared"
    /\ \E i \in DOMAIN changes : changes[i].Type = ChangeTypeUpdate
    /\ \E i \in DOMAIN changes : changes[i].Type = ChangeTypeAdd
    /\ \E k \in DOMAIN local : k \in RemoteKeys(remote) /\ ChangesFor(changes, k) = {}

\* C3: Compare is deterministic.  Its output is sorted by key in strictly
\* ascending order, and every iteration order of the local map and of the
\* remote lookup map gives the same list.
C3_Deterministic ==
    pc = "compared" =>
        /\ \A i \in 1..(Len(changes) - 1) : StrLess(changes[i].Key, changes[i + 1].Key)
        /\ \A lo \in Orders(DOMAIN local), ro \in Orders(RemoteKeys(remote)) :
               Compare(local, remote, strict, lo, ro) = changes

C3_Witness ==
    /\ pc = "compared"
    /\ Len(changes) >= 2
    /\ Cardinality(DOMAIN local) >= 2
    /\ \E i \in DOMAIN changes : changes[i].Type = ChangeTypeDelete

(***************************************************************************)
(* Claims about the sync                                                   *)
(***************************************************************************)

\* The key/value pairs of an item list.
ItemPairs(rem) == {<<rem[i].Key, rem[i].Value>> : i \in DOMAIN rem}

LocalPairs(loc) == {<<k, loc[k]>> : k \in DOMAIN loc}

\* C4: a strict sync converges.  After fetch, Compare(strict), ApplyChanges
\* with every store call succeeding and a second fetch with the same filter,
\* Compare returns no change and the fetched items hold exactly the local
\* key/value pairs.  The claim is stated here for its plainest case, no label
\* filter and a store without labelled settings; it covers the others too.
C4_Converges ==
    (/\ round = 2
     /\ pc = "compared"
     /\ strict
     /\ labelFilter = ""
     /\ \A slot \in DOMAIN store0 : slot[2] = "") =>
        /\ changes = <<>>
        /\ ItemPairs(remote) = LocalPairs(local)

\* C5: non-strict mode leaves remote-only keys untouched.  No delete store
\* call is issued, and every setting whose key is not in the local map keeps
\* its original value, whether or not the reconciliation succeeds.
C5_NonStrictFrame ==
    ~strict =>
        /\ \A i \in DOMAIN calls : calls[i].call # "delete"
        /\ \A slot \in DOMAIN store0 :
               slot[1] \notin DOMAIN local =>
                   slot \in DOMAIN store /\ store[slot] = store0[slot]

C5_Witness ==
    /\ ~strict
    /\ pc = "returned"
    /\ Len(outcomes) >= 2
    /\ store # store0
    /\ \E slot \in DOMAIN store0 : slot[1] \notin DOMAIN local

\* The store after every operation of the list has been applied.
RECURSIVE ApplyAll(_, _, _)
ApplyAll(st, ops, i) ==
    IF i > Len(ops) THEN st
    ELSE ApplyAll(StoreAfter(st, StoreCallOf(ops[i])), ops, i + 1)

\* C9: applying a change list is all-or-nothing.  Whenever ApplyChanges
\* returns an error the store holds its content from before the call or the
\* content with every change applied.
C9_Atomic ==
    (pc = "returned" /\ result.kind \in {"exhausted", "cancelled"}) =>
        \/ store = store0
        \/ store = ApplyAll(store0, operations, 1)

WritesIssued == store # store0 \/ \E i \in DOMAIN issued : issued[i] > 0

\* C8: in every run of the root command a store write or delete is issued
\* only with --apply set and, when --ci is not set, only after the prompt was
\* answered with "y" or "Y"; after any other answer the run has ended, no store
\* call was issued and the store is unchanged.
C8_SafeByDefault ==
    /\ WritesIssued => /\ apply
                       /\ ~ci => (prompted /\ response \in {"y", "Y"})
    /\ (prompted /\ response \notin {"y", "Y"}) =>
           /\ pc = "exited"
           /\ store = store0
           /\ ~WritesIssued

\* A confirmed interactive run that changed the store and ended with success.
C8_Witness ==
    /\ pc = "exited"
    /\ apply
    /\ ~ci
    /\ prompted
    /\ response = "Y"
    /\ store # store0
    /\ exitCode = 0

(***************************************************************************)
(* Claims about Flatten and Unflatten                                      *)
(***************************************************************************)

\* The scalar leaves of a document, each with the object keys and list
\* indices on the way from the root and with its string rendering.
RECURSIVE LeavesOf(_, _)
LeavesOf(t, path) ==
    CASE t.kind = "map" ->
             UNION {LeavesOf(t.fields[k], Append(path, k)) : k \in DOMAIN t.fields}
      [] t.kind = "slice" ->
             UNION {LeavesOf(t.items[i], Append(path, Itoa(i - 1))) : i \in DOMAIN t.items}
      [] t.kind = "nil" -> {}
      [] OTHER -> {<<path, formatValue(t)>>}

\* The segments of a path joined with ".".
RECURSIVE JoinDots(_)
JoinDots(path) ==
    IF Len(path) = 0 THEN ""
    ELSE IF Len(path) = 1 THEN path[1]
    ELSE path[1] \o "." \o JoinDots(Tail(path))

\* u has the shape of t: the same object keys, the same list lengths and
\* positions, a scalar where t has a scalar, and the identical string where t
\* has a string.
RECURSIVE SameShape(_, _)
SameShape(t, u) ==
    CASE t.kind = "map" ->
             /\ u.kind = "map"
             /\ DOMAIN u.fields = DOMAIN t.fields
             /\ \A k \in DOMAIN t.fields : SameShape(t.fields[k], u.fields[k])
      [] t.kind = "slice" ->
             /\ u.kind = "slice"
             /\ Len(u.items) = Len(t.items)
             /\ \A i \in DOMAIN t.items : SameShape(t.items[i], u.items[i])
      [] t.kind = "string" -> u = t
      [] OTHER -> u.kind \notin {"map", "slice", "nil"}

\* An object key that is one path segment and not a list index.
PlainKey(k) == k # "" /\ ~Contains(k, ".") /\ ~Atoi(k).ok

\* The documents for which the flat form is unambiguous: every object key is
\* a plain key, every list and object has an element, and no string leaf is
\* JSON text that parseValue turns into a composite.
RECURSIVE PlainDocument(_)
PlainDocument(t) ==
    CASE t.kind = "map" ->
             /\ DOMAIN t.fields # {}
             /\ \A k \in DOMAIN t.fields : PlainKey(k) /\ PlainDocument(t.fields[k])
      [] t.kind = "slice" ->
             /\ Len(t.items) > 0
             /\ \A i \in DOMAIN t.items : PlainDocument(t.items[i])
      [] t.kind = "string" -> parseValue(t.val) = t
      [] OTHER -> TRUE

\* C6: for every document built from scalars, lists and objects,
\* Unflatten(Flatten(t)) succeeds and returns a tree with the same object keys,
\* list lengths and positions as t, in which every string leaf of t has the
\* identical string value.  Stated for the documents with an unambiguous
\* flat form only.
C6_RoundTrip ==
    (pc = "unflattened" /\ PlainDocument(data)) =>
        /\ unflat.kind = "ok"
        /\ SameShape(data, Map(unflat.fields))

\* C7: Flatten returns exactly one entry per scalar leaf of the document, under
\* the path of the leaf's keys and indices joined with "." and with the leaf's
\* string rendering as value, so that no leaf is overwritten by another; an
\* empty document gives an empty mapping.
C7_OneEntryPerLeaf ==
    pc \in {"flattened", "unflattened"} =>
        /\ Cardinality(DOMAIN flat) = Cardinality(LeavesOf(data, <<>>))
        /\ \A leaf \in LeavesOf(data, <<>>) :
               /\ JoinDots(leaf[1]) \in DOMAIN flat
               /\ flat[JoinDots(leaf[1])] = leaf[2]
        /\ data = Map(EmptyMap) => flat = EmptyMap

(***************************************************************************)
(* Claims about cancellation and the store calls of a reconciliation       *)
(***************************************************************************)

\* C11: cancellation preempts waiting.  When ctx is cancelled while
\* applyWithRetry waits between attempts, or was cancelled before the wait
\* began, the next step returns the cancellation error: the wait is not
\* counted as finished, no store call is issued and the store is unchanged;
\* and after the return nothing is issued any more.
C11_CancelPreemptsWait ==
    [][/\ (pc = "waiting" /\ ctxDone) =>
              /\ pc' = "returned"
              /\ result'.kind = "cancelled"
              /\ waits' = waits
              /\ issued' = issued
              /\ store' = store
       /\ (pc = "returned" /\ result.kind = "cancelled") =>
              (issued' = issued /\ store' = store /\ pc' = "returned")]_vars

\* Cancelled during the second wait: two failed attempts, one full wait.
C11_Witness ==
    /\ pc = "returned"
    /\ result.kind = "cancelled"
    /\ ctxDone
    /\ outcomes = <<"fail", "fail">>
    /\ waits = <<1>>

(***************************************************************************)
(* Claims about the validator                                              *)
(***************************************************************************)

\* A value that claims to be a secret reference: it begins with the
\* @Microsoft.KeyVault( marker, or begins with https:// and contains the
\* vault host name.
SecretMarker(value) ==
    \/ HasPrefix(value, "@Microsoft.KeyVault(")
    \/ HasPrefix(value, "https://") /\ Contains(value, "vault.azure.net")

\* C12: for every key, feature-flag keys included, a value that claims to be
\* a secret reference is classified as a Key Vault reference or rejected with
\* an error; it is never returned as a regular value or as a feature flag.
C12_NeverDowngraded ==
    (pc = "classified" /\ SecretMarker(vvalue)) =>
        (~special.ok \/ special.val.Type = ValueTypeKeyVault)

\* A feature-flag key with a well-formed reference and another with a
\* malformed one have been classified.
C12_Witness ==
    /\ pc = "classified"
    /\ isFeatureFlagKey(vkey)
    /\ \/ vvalue = CanonicalRef /\ special.ok /\ special.val.Type = ValueTypeKeyVault
       \/ vvalue = "https://v.vault.azure.net/keys/s" /\ ~special.ok

\* The eight naming patterns of a feature-flag key, matched on the key in
\* lower case.
FlagPrefixes == {"feature.", "flag.", "enable.", "disable."}
FlagSuffixes == {".enabled", ".disabled", ".feature", ".flag"}

MatchesFlagPattern(key) ==
    \/ \E p \in FlagPrefixes : HasPrefix(ToLower(key), p)
    \/ \E s \in FlagSuffixes : HasSuffix(ToLower(key), s)

Truthy == {"true", "1", "yes", "on", "enabled"}
Falsy == {"false", "0", "no", "off", "disabled"}

\* C13: for a feature-flag key and a value that is no secret-reference
\* candidate and is in neither the truthy nor the falsy set, the
\* classification returns an error.
C13_InvalidFlagValueIsError ==
    (/\ pc = "classified"
     /\ MatchesFlagPattern(vkey)
     /\ ~SecretMarker(vvalue)
     /\ ToLower(vvalue) \notin Truthy \cup Falsy) => ~special.ok

\* C14: a value without a secret-reference marker is a feature flag that is
\* enabled when the key matches a pattern and the value is truthy, a feature
\* flag that is disabled when the key matches and the value is falsy, and a
\* regular value, unchanged and without error, when the key matches none.
C14_ClassifiesPlainValues ==
    (pc = "classified" /\ ~SecretMarker(vvalue)) =>
        /\ (MatchesFlagPattern(vkey) /\ ToLower(vvalue) \in Truthy) =>
               /\ special.ok
               /\ special.val.Type = ValueTypeFeatureFlag
               /\ special.val.ParsedValue.Enabled = TRUE
        /\ (MatchesFlagPattern(vkey) /\ ToLower(vvalue) \in Falsy) =>
               /\ special.ok
               /\ special.val.Type = ValueTypeFeatureFlag
               /\ special.val.ParsedValue.Enabled = FALSE
        /\ ~MatchesFlagPattern(vkey) =>
               /\ special.ok
               /\ special.val.Type = ValueTypeRegular
               /\ special.val.Original = vvalue
               /\ special.val.ParsedValue = vvalue

\* A key in mixed case with a value in upper case has been classified as an
\* enabled feature flag.
C14_Witness ==
    /\ pc = "classified"
    /\ vkey = "Feature.New_UI"
    /\ vvalue = "ON"
    /\ special.ok
    /\ special.val.Type = ValueTypeFeatureFlag
    /\ special.val.ParsedValue.Enabled = TRUE

\* The URI a secret-reference candidate carries: the SecretUri parameter of
\* the @Microsoft.KeyVault(...) form ("" when there is none), the value itself
\* otherwise.
SecretUriOf(value) ==
    IF HasPrefix(value, "@Microsoft.KeyVault(")
    THEN LET params == ParseParams(Split(TrimPrefix(TrimSuffix(value, ")"),
                                                    "@Microsoft.KeyVault("), ";"),
                                   1, EmptyMap)
         IN  IF "SecretUri" \in DOMAIN params THEN params["SecretUri"] ELSE ""
    ELSE value

\* The segments of a path that is exactly /secrets/<name> or
\* /secrets/<name>/<version>, with <name> of 1 to 127 letters, digits, '-', '_'.
SecretPath(segments) ==
    /\ Len(segments) \in {3, 4}
    /\ segments[1] = ""
    /\ segments[2] = "secrets"
    /\ Len(segments[3]) \in 1..127
    /\ \A i \in 1..Len(segments[3]) :
           \/ IsLower(CharAt(segments[3], i)) \/ IsUpper(CharAt(segments[3], i))
           \/ IsDigit(CharAt(segments[3], i)) \/ CharAt(segments[3], i) \in {"-", "_"}

\* C15: a secret-reference candidate is accepted only if the host of its URI
\* is a vault host and its path is exactly /secrets/<name> or
\* /secrets/<name>/<version> with a well-formed name; the accepted reference
\* then carries 'https://' + host, the name, and the version or "".
C15_AcceptsOnlySecretUris ==
    (pc = "classified" /\ SecretMarker(vvalue) /\ special.ok) =>
        LET url == UrlParse(SecretUriOf(vvalue))
            segments == Split(url.Path, "/")
        IN  /\ url.ok
            /\ Contains(url.Host, "vault.azure.net")
            /\ SecretPath(segments)
            /\ special.val.ParsedValue =
                   KeyVaultReference("https://" \o url.Host, segments[3],
                                     IF Len(segments) = 4 THEN segments[4] ELSE "")

\* The positions of the error list that report key k.
ErrorsFor(k) == {i \in DOMAIN errors : errors[i].Key = k}

\* C16: ValidateConfiguration returns a list with exactly one error, of type
\* 'parsing_error', for each key whose classification fails and none for any
\* other key, and FlattenAndValidate returns next to it the complete flattened
\* mapping: one entry per leaf of the document.
C16_CollectsAllErrors ==
    pc = "validated" =>
        /\ \A leaf \in LeavesOf(data, <<>>) :
               /\ JoinDots(leaf[1]) \in DOMAIN flat
               /\ flat[JoinDots(leaf[1])] = leaf[2]
        /\ Cardinality(DOMAIN flat) = Cardinality(LeavesOf(data, <<>>))
        /\ \A i \in DOMAIN errors :
               /\ errors[i].Key \in DOMAIN flat
               /\ errors[i].Value = flat[errors[i].Key]
               /\ errors[i].Type = "parsing_error"
        /\ \A k \in DOMAIN flat :
               Cardinality(ErrorsFor(k)) =
                   IF ValidateAndParseValue(k, flat[k]).ok THEN 0 ELSE 1

\* A configuration with two failing keys has been validated, and a
\* configuration with a failing key and a passing key.
C16_Witness ==
    /\ pc = "validated"
    /\ Cardinality(DOMAIN flat) = 2
    /\ Len(errors) = 1
    /\ \E k \in DOMAIN flat : ErrorsFor(k) = {}

(***************************************************************************)
(* Claims about the encoding of secret references                          *)
(***************************************************************************)

\* C17: for every local value that the client writes as a Key Vault
\* reference, the value read back from what was written equals the local
\* value, and the Compare after the write reports no change for its key (no
\* label filter, a store without labelled settings).
C17_EncodingRoundTrip ==
    /\ \A i \in DOMAIN calls :
           (/\ calls[i].call = "set"
            /\ calls[i].ok
            /\ calls[i].contentType = KeyVaultContentType) =>
               normalizeRetrievedValue(calls[i].value) = local[calls[i].key]
    /\ (/\ round = 2
        /\ pc = "compared"
        /\ labelFilter = ""
        /\ \A slot \in DOMAIN store0 : slot[2] = "") =>
           \A k \in DOMAIN local :
               detectContentType(local[k]) = KeyVaultContentType =>
                   ChangesFor(changes, k) = {}

(***************************************************************************)
(* Claims about the command line                                           *)
(***************************************************************************)

\* C18: a run in --ci mode, with either output format, ends with exit code 2
\* when runRoot fails before the comparison, with exit code 0 when the
\* comparison finds no change, and with exit code 1 when it finds changes.
C18_CiExitCodes ==
    [][(ci /\ pc # "exited" /\ pc' = "exited") =>
           exitCode' = IF pc = "start" THEN 2
                       ELSE IF changes = <<>> THEN 0
                       ELSE 1]_vars

(***************************************************************************)
(* Claims about the store calls of a reconciliation                        *)
(***************************************************************************)

Succeeded(c) == c.ok

\* The store call of a change: a write of the key for Add and Update, a
\* delete of the key with the change's label for Delete.
CallOfChange(c, change) ==
    /\ c.key = change.Key
    /\ IF change.Type = ChangeTypeDelete
       THEN c.call = "delete" /\ c.label = change.Label
       ELSE c.call = "set"

RECURSIVE SumSeq(_)
SumSeq(s) == IF s = <<>> THEN 0 ELSE Head(s) + SumSeq(Tail(s))

Failed(outcome) == outcome = "fail"

\* C20: only a store call that failed is issued again.  The store calls
\* issued during a reconciliation are at most one per change and one more for
\* every store call that failed.
C20_RetryPerCall ==
    pc \in {"applying", "waiting", "returned"} =>
        SumSeq(issued) <= Cardinality({i \in DOMAIN issued : issued[i] > 0})
                            + Len(SelectSeq(outcomes, Failed))

\* C21: when applyWithRetry gives up, every attempt of the budget has failed,
\* the returned error wraps the error of the store call that failed in the
\* last attempt, that call is the last one issued, and no call for a later
\* change was issued in the last attempt; a later change has had a call only
\* in an earlier attempt that got past the failing call.
C21_NoBestEffort ==
    (pc = "returned" /\ result.kind = "exhausted") =>
        /\ attempt = maxRetries
        /\ Len(SelectSeq(outcomes, Failed)) = maxRetries + 1
        /\ result.attempts = maxRetries + 1
        /\ result.err = lastErr
        /\ Len(calls) = opIdx
        /\ ~calls[opIdx].ok
        /\ lastErr.key = calls[opIdx].key
        /\ lastErr.call = calls[opIdx].call
        /\ lastErr.attempt = maxRetries
        /\ \A j \in DOMAIN issued : j > opIdx => issued[j] <= maxRetries

\* The call of the first of two changes has failed in every attempt, and
\* applyWithRetry has given up without a call for the second.
C21_Witness ==
    /\ pc = "returned"
    /\ result.kind = "exhausted"
    /\ Len(changes) = 2
    /\ issued = <<maxRetries + 1, 0>>

\* C22: applyWithRetry returns the exhaustion error only when all
\* maxRetries+1 attempts were made and failed, the cancellation error only
\* when ctx was cancelled, and whenever ctx was cancelled before the
\* reconciliation ended without success the error returned is the
\* cancellation error, not the exhaustion error.
C22_CancelledNotExhausted ==
    pc = "returned" =>
        /\ result.kind = "exhausted" =>
               /\ attempt = maxRetries
               /\ Len(SelectSeq(outcomes, Failed)) = maxRetries + 1
        /\ result.kind = "cancelled" => ctxDone
        /\ (ctxDone /\ result.kind # "ok") => result.kind = "cancelled"

(***************************************************************************)
(* Claims about Unflatten                                                  *)
(***************************************************************************)

\* A segment that is a non-negative integer: one or more decimal digits.
IsListIndex(seg) == Len(seg) > 0 /\ \A j \in 1..Len(seg) : IsDigit(CharAt(seg, j))

Missing == [kind |-> "missing"]

\* The node reached from node t along the segments: the member of an object
\* for a segment that is no list index, the position of a list for one that
\* is; Missing when there is no such node.
RECURSIVE WalkFrom(_, _)
WalkFrom(t, segs) ==
    IF Len(segs) = 0 THEN t
    ELSE IF IsListIndex(segs[1])
    THEN IF t.kind = "slice" /\ DigitsVal(segs[1], 1, 0) < Len(t.items)
         THEN WalkFrom(t.items[DigitsVal(segs[1], 1, 0) + 1], Tail(segs))
         ELSE Missing
    ELSE IF t.kind = "map" /\ segs[1] \in DOMAIN t.fields
         THEN WalkFrom(t.fields[segs[1]], Tail(segs))
         ELSE Missing

\* The first n segments of a path.
Prefix(segs, n) == SubSeq(segs, 1, n)

\* p is a proper prefix of q.
ProperPrefix(p, q) == Len(p) < Len(q) /\ Prefix(q, Len(p)) = p

Paths(fl) == {Split(k, ".") : k \in DOMAIN fl}

\* No path of the mapping runs through the leaf of another, no node has to be
\* a list for one path and an object for another, and every segment is an
\* object key without sign or a list index.
ConflictFree(fl) ==
    /\ \A p \in Paths(fl) : \A i \in DOMAIN p : ~Atoi(p[i]).ok \/ IsListIndex(p[i])
    /\ \A p, q \in Paths(fl) :
           /\ ~ProperPrefix(p, q)
           /\ \A n \in 1..Len(p) :
                  (n < Len(p) /\ n < Len(q) /\ Prefix(p, n) = Prefix(q, n)) =>
                      (IsListIndex(p[n + 1]) <=> IsListIndex(q[n + 1]))

\* C23: for a flat mapping without conflicting paths Unflatten succeeds, and
\* walking the result along the segments of each path reaches the entry's
\* value, or its parsed JSON; this includes a path whose last segment is a
\* list index.
C23_ValueAtPath ==
    (pc = "unflattened" /\ ConflictFree(flat)) =>
        /\ unflat.kind = "ok"
        /\ \A k \in DOMAIN flat :
               WalkFrom(Map(unflat.fields), Split(k, ".")) = parseValue(flat[k])

\* The list indices that follow the first n segments of p in the paths of
\* the mapping.
IndicesSeen(fl, p, n) ==
    {DigitsVal(q[n + 1], 1, 0) :
        q \in {r \in Paths(fl) : /\ Len(r) > n
                                 /\ Prefix(r, n) = Prefix(p, n)
                                 /\ IsListIndex(r[n + 1])}}

MaxOf(S) == CHOOSE x \in S : \A y \in S : y <= x

\* C24: after Unflatten succeeds, every list of the result that the paths
\* index has length (highest index seen for it) + 1; a position whose index
\* is in no path holds the null placeholder and a position whose index is in
\* a path holds a node.
C24_NoGaps ==
    (pc = "unflattened" /\ unflat.kind = "ok") =>
        \A p \in Paths(flat) : \A n \in 1..(Len(p) - 1) :
            LET list == WalkFrom(Map(unflat.fields), Prefix(p, n))
                seen == IndicesSeen(flat, p, n)
            IN  (IsListIndex(p[n + 1]) /\ list.kind = "slice") =>
                    /\ Len(list.items) = MaxOf(seen) + 1
                    /\ \A i \in 0..MaxOf(seen) :
                           (list.items[i + 1] = Nil) <=> (i \notin seen)

\* Two paths of the mapping agree on their first n segments and continue
\* with a list index in one and with an object key in the other, so that the
\* node they share has to be a list and an object.
HasTypeConflict(fl) ==
    \E p, q \in Paths(fl) : \E n \in 1..Len(p) :
        /\ n < Len(p)
        /\ n < Len(q)
        /\ Prefix(p, n) = Prefix(q, n)
        /\ IsListIndex(p[n + 1])
        /\ ~IsListIndex(q[n + 1])

\* C25: for a flat mapping with two paths that require one node to be both a
\* list and an object, Unflatten returns the type-conflict error and no tree,
\* in whichever order the entries are processed.
C25_TypeConflictIsFatal ==
    (pc = "unflattened" /\ HasTypeConflict(flat)) => unflat.kind = "error"

\* C26: Unflatten ends with a tree or an error value for every mapping, and a
\* segment that is no non-negative integer, '-1' included, is an object key:
\* in the tree built from a single entry the node such a segment hangs from
\* is an object that has it as a member.
C26_IndexRecognition ==
    pc = "unflattened" =>
        /\ unflat.kind \in {"ok", "error"}
        /\ (unflat.kind = "ok" /\ Cardinality(DOMAIN flat) = 1) =>
               \A p \in Paths(flat) : \A n \in 1..(Len(p) - 1) :
                   ~IsListIndex(p[n + 1]) =>
                       LET node == WalkFrom(Map(unflat.fields), Prefix(p, n))
                       IN  node.kind = "map" /\ p[n + 1] \in DOMAIN node.fields

\* Two outcomes of Unflatten are the same: the same tree, or both the error,
\* or both the panic.
SameOutcome(r, s) == r.kind = s.kind /\ (r.kind = "ok" => r.fields = s.fields)

\* C30: the outcome of Unflatten does not depend on the order in which the
\* entries of the mapping are processed: every order gives the outcome this
\* run has given.
C30_OrderIndependent ==
    pc = "unflattened" =>
        \A keys \in Orders(DOMAIN flat) : SameOutcome(Unflatten(flat, keys), unflat)

(***************************************************************************)
(* Claims about the encoding on write and the normalization on read        *)
(***************************************************************************)

\* A value written as a secret reference: the @Microsoft.KeyVault(...) form
\* or a bare https vault URI.
WrittenAsReference(value) ==
    \/ HasPrefix(value, "@Microsoft.KeyVault(") /\ HasSuffix(value, ")")
    \/ HasPrefix(value, "https://") /\ Contains(value, "vault.azure.net")

\* The compact JSON object {"uri": uri} for a URI that needs no escaping.
UriObject(uri) == "{\"uri\":\"" \o uri \o "\"}"

\* C27: for every Add or Update whose new value is a secret reference the
\* value sent to the store is the compact JSON object with the reference's
\* SecretUri, or with the bare URI, as "uri"; for every other new value the
\* value sent is the new value itself.
C27_WireEncoding ==
    \A i \in DOMAIN calls :
        calls[i].call = "set" =>
            LET value == local[calls[i].key]
            IN  calls[i].value = IF WrittenAsReference(value)
                                 THEN UriObject(SecretUriOf(value))
                                 ELSE value

\* A reference in the @Microsoft.KeyVault form, a bare vault URI and a plain
\* value have been written.
C27_Witness ==
    /\ pc = "returned"
    /\ \E i, j \in DOMAIN calls :
           /\ calls[i].call = "set"
           /\ calls[j].call = "set"
           /\ local[calls[i].key] = CanonicalRef
           /\ calls[i].value = "{\"uri\":\"https://v.vault.azure.net/secrets/s\"}"
           /\ local[calls[j].key] \in {BareVaultUri, "1"}

\* The secret URI a stored value denotes: the "uri" member of a JSON object,
\* the SecretUri parameter of the @Microsoft.KeyVault text, or the bare URI.
StoredUri(value) ==
    IF HasPrefix(value, "{")
    THEN LET obj == UnmarshalObject(value)
         IN  IF obj.ok /\ "uri" \in DOMAIN obj.members /\ obj.members["uri"].isString
             THEN obj.members["uri"].str
             ELSE ""
    ELSE SecretUriOf(value)

\* A stored value that denotes a secret reference: a JSON object whose "uri"
\* is a vault URI, an @Microsoft.KeyVault text, or a bare vault URI.
DenotesReference(value) ==
    \/ HasPrefix(value, "{") /\ Contains(StoredUri(value), "vault.azure.net")
    \/ HasPrefix(value, "@Microsoft.KeyVault(")
    \/ HasPrefix(value, "https://") /\ Contains(value, "vault.azure.net")

\* C28: every fetched value that denotes a secret reference, in whichever
\* encoding it is stored, reaches Compare as exactly
\* '@Microsoft.KeyVault(SecretUri=<uri>)'; every other value is unchanged.
C28_CanonicalOnRead ==
    pc = "fetched" =>
        \A i \in DOMAIN remote :
            LET stored == store[<<remote[i].Key, remote[i].Label>>]
            IN  remote[i].Value =
                    IF DenotesReference(stored)
                    THEN "@Microsoft.KeyVault(SecretUri=" \o StoredUri(stored) \o ")"
                    ELSE stored

(***************************************************************************)
(* Claims about --ci with --apply                                          *)
(***************************************************************************)

\* C29: a run with --apply and --ci and a non-empty diff exits only after
\* ApplyChanges has been called, and without having prompted.
C29_CiApplies ==
    (pc = "exited" /\ apply /\ ci /\ Len(changes) > 0) =>
        /\ ~prompted
        /\ operations # <<>>
====
